---- MODULE Spec2Model ----
(***************************************************************************)
(* WebArcade CLI: the plugin build orchestrator, the source fingerprint    *)
(* cache, the config registry and the process guard of src/src/main.rs.    *)
(*                                                                         *)
(* The disk (plugin source directories, the runtime plugin directory, the  *)
(* cache file and the registry file) is the shared state; one command runs *)
(* at a time (pc), and between its steps the user may edit the sources.    *)
(* The tool is the only writer of the cache, registry and output           *)
(* directories.  A write that fails is modelled as leaving its file as it  *)
(* was.                                                                    *)
(***************************************************************************)
EXTENDS Integers, Sequences, FiniteSets, TLC

\* ------------------------------------------------------------------ bounds
MaxCmds == 2
MaxEdits == 1
MaxVer == 1

\* The plugin ids of the project (directory names under plugins/).
Ids == {1, 2}

\* ------------------------------------------------------------------ state
VARIABLES
    src,            \* [Ids -> source directory]: plugins/<id>
    dist,           \* [Ids -> [js, lib]]: app/plugins/<id>.js, app/plugins/lib<id>.so
    cache,          \* build/.build_cache.json
    registry,       \* webarcade.config.json
    pc,             \* position of the running command
    inv,            \* the running (or last) command invocation
    cur,            \* plugin whose pipeline is running (0: none)
    b,              \* the running (or last) build_plugin_internal call
    to_build,       \* build_all_plugins: to_build
    skipped,        \* build_all_plugins: skipped
    idx,            \* build_all_plugins: position of the loop over to_build
    errors,         \* build_all_plugins: errors (ids, in order)
    progress,       \* BuildProgress.plugins: [Ids -> PluginStatus]
    BUILD_PROGRESS, \* the thread-local pointer: TRUE when Some
    lastOk,         \* [Ids -> BOOLEAN]: the last build of the plugin succeeded
    edited,         \* [Ids -> BOOLEAN]: source changed since it was last hashed into the cache
    ncmd,           \* commands started
    nedit,          \* source edits made
    walks,          \* two directory walks handed to calculate_plugin_hash
    digests,        \* the digests computed for them (<<>>: not yet)
    plugin,         \* a plugin directory handed to PluginBuilder: Cargo.toml, router.rs
    routes,         \* PluginBuilder::build: routes, the list extract_routes returned
    lib_rs,         \* rust_build/: the generated Cargo.toml and lib.rs
    call,           \* one call of a generated wrapper by the host
    sys,            \* one run of kill_running_app_processes on a process table
    compile         \* one plugin built and installed: cargo's run, the files written

\* The state of the runs that apply one function of the program to drawn inputs.
gen == <<walks, digests, plugin, routes, lib_rs, call, sys, compile>>

vars == <<src, dist, cache, registry, pc, inv, cur, b, to_build, skipped, idx,
          errors, progress, BUILD_PROGRESS, lastOk, edited, ncmd, nedit, gen>>

disk == <<src, dist, cache, registry>>
batch == <<to_build, skipped, idx, errors, progress, BUILD_PROGRESS>>

\* ------------------------------------------------------------- source dirs
\* A plugin source directory: mod.rs + Cargo.toml (backend), a [routes] table in
\* Cargo.toml (routes), index.js (frontend), and one more included file,
\* assets/data.json, with content version data, that may be unreadable
\* (access "noread": fs::read fails on it).
NoDir == [exists |-> FALSE, backend |-> FALSE, routes |-> FALSE, frontend |-> FALSE,
          data |-> 0, access |-> "ok"]

SrcDir(be, ro, fe) ==
    [exists |-> TRUE, backend |-> be, routes |-> ro, frontend |-> fe,
     data |-> 0, access |-> "ok"]

default_priority == 100


\* ------------------------------------------------------- fingerprint cache
\* The files WalkDir yields for a source directory and the loop retains
\* (is_file, allow-listed extension, not under target/node_modules/.git, not a
\* lock file).  A walk error is dropped by filter_map(|e| e.ok()): a missing
\* directory contributes no file.
\* rank is the position of the path in the order of files.sort():
\* "Cargo.toml" < "assets/data.json" < "index.js" < "mod.rs".
WalkFiles(s) ==
    IF ~s.exists THEN {}
    ELSE (IF s.backend
            THEN {[rank |-> 1, path |-> <<1>>, readable |-> TRUE,
                   content |-> IF s.routes THEN <<5, 6>> ELSE <<5>>],
                  [rank |-> 4, path |-> <<4>>, readable |-> TRUE, content |-> <<7>>]}
            ELSE {})
         \cup (IF s.frontend
            THEN {[rank |-> 3, path |-> <<3>>, readable |-> TRUE, content |-> <<8>>]}
            ELSE {})
         \cup {[rank |-> 2, path |-> <<2>>, readable |-> s.access = "ok",
                 content |-> <<9, s.data>>]}

\* The byte stream fed to the hasher for the sorted file list: the relative
\* path, then the content when fs::read succeeds (a read error feeds nothing).
\* SHA-256 is taken as injective on that stream, so the stream is the digest.
RECURSIVE HashStream(_)
HashStream(files) ==
    IF files = {} THEN <<>>
    ELSE LET f == CHOOSE x \in files : \A y \in files : x.rank <= y.rank
         IN  f.path \o (IF f.readable THEN f.content ELSE <<>>)
                    \o HashStream(files \ {f})

calculate_plugin_hash(s) == HashStream(WalkFiles(s))

NoCacheEntry == [present |-> FALSE, source_hash |-> <<>>]
EmptyCache == [p \in Ids |-> NoCacheEntry]

\* BuildCache::load: a missing file and a file that does not parse give the
\* default (empty) cache; a file that exists but cannot be read as UTF-8 text
\* is an error.
BuildCache_load ==
    IF cache.state = "ok" THEN cache.plugins ELSE EmptyCache

\* plugin_needs_rebuild with the bug of taking a missing cache entry for an
\* up-to-date plugin.
plugin_needs_rebuild_NoEntrySkips(p) ==
    LET has_backend == src[p].exists /\ src[p].backend
        output_exists == IF has_backend THEN dist[p].lib ELSE dist[p].js
        entry == BuildCache_load[p]
    IN  IF ~output_exists THEN "true"
        ELSE IF cache.state = "unreadable" THEN "err"
        ELSE IF entry.present /\ entry.source_hash # calculate_plugin_hash(src[p])
             THEN "true" ELSE "false"

\* Ok(true) = "true", Ok(false) = "false", Err = "err".
plugin_needs_rebuild(p) ==
    LET has_backend == src[p].exists /\ src[p].backend
        output_exists == IF has_backend THEN dist[p].lib ELSE dist[p].js
        entry == BuildCache_load[p]
    IN  IF ~output_exists THEN "true"
        ELSE IF cache.state = "unreadable" THEN "err"
        ELSE IF entry.present
             THEN (IF entry.source_hash # calculate_plugin_hash(src[p]) THEN "true" ELSE "false")
             ELSE "true"

\* build_plugin with the bug of consulting the cache even when forced.
SkipSingle_IgnoresForce(p, force) == plugin_needs_rebuild(p) = "false"

\* build_plugin: the plugin is reported up to date only on Ok(false).
SkipSingle(p, force) == ~force /\ plugin_needs_rebuild(p) = "false"

\* build_all_plugins: Ok(true) and Err go to to_build, Ok(false) to skipped.
SkipBatch(p, force) == ~force /\ plugin_needs_rebuild(p) = "false"

\* ---------------------------------------------------------- config registry
NoRegEntry == [present |-> FALSE, path |-> "", has_backend |-> FALSE, has_frontend |-> FALSE,
               priority |-> 0, enabled |-> FALSE, routes |-> FALSE]
EmptyRegistry == [p \in Ids |-> NoRegEntry]

\* WebArcadeConfig::load_or_create on a readable registry: the file's plugins,
\* or the default config with no plugins when the file is absent.
load_or_create ==
    IF registry.state = "ok" THEN registry.plugins ELSE EmptyRegistry

\* update_config_for_plugin with the bug of saving the entry before the step
\* that fails.
SavedRegistry_SavesFirst(p, entry, fails) ==
    [state |-> "ok", plugins |-> [load_or_create EXCEPT ![p] = entry]]

\* The registry file after update_config_for_plugin: with the entry upserted
\* and saved, or, when a step of it fails, as it was.
SavedRegistry(p, entry, fails) ==
    IF fails THEN registry
    ELSE [state |-> "ok", plugins |-> [load_or_create EXCEPT ![p] = entry]]

\* The PluginConfigEntry update_config_for_plugin builds from the build info.
ConfigEntry(info) ==
    [present |-> TRUE,
     path |-> IF info.has_backend THEN "dll" ELSE "js",
     has_backend |-> info.has_backend, has_frontend |-> info.has_frontend,
     priority |-> default_priority, enabled |-> TRUE, routes |-> info.routes]

\* ------------------------------------------------------------ bookkeeping
\* One build_plugin_internal call: what it has done so far.
NewBuild(p) ==
    [id |-> p, reg0 |-> registry,
     info |-> [has_backend |-> FALSE, has_frontend |-> FALSE, routes |-> FALSE],
     compiled |-> FALSE, overwrote |-> FALSE, guard |-> inv.guard,
     cacheWritten |-> FALSE, cfgWritten |-> FALSE, stale |-> FALSE, outcome |-> "running"]

NoBuild ==
    [id |-> 0, reg0 |-> [state |-> "absent", plugins |-> EmptyRegistry],
     info |-> [has_backend |-> FALSE, has_frontend |-> FALSE, routes |-> FALSE],
     compiled |-> FALSE, overwrote |-> FALSE, guard |-> FALSE,
     cacheWritten |-> FALSE, cfgWritten |-> FALSE, stale |-> FALSE, outcome |-> "none"]

\* One command invocation, with what held when it started: reg0 the registry,
\* absent the plugins without a source directory, backend the plugins with
\* mod.rs and Cargo.toml, routed the plugins with a backend and a route table,
\* clean the plugins whose last build succeeded and
\* whose sources are unchanged since.  called/listed: build_all_plugins was
\* called / got past the listing of the plugin directories.  failed: the
\* plugins whose build_plugin_internal returned an error.
NewInv(kind, force, p, guard) ==
    [kind |-> kind, force |-> force, id |-> p, guard |-> guard, outcome |-> "running",
     compiles |-> [q \in Ids |-> 0], attempted |-> <<>>, failed |-> {},
     called |-> FALSE, listed |-> FALSE, reg0 |-> registry,
     absent |-> {q \in Ids : ~src[q].exists},
     routed |-> {q \in Ids : src[q].exists /\ src[q].backend /\ src[q].routes},
     backend |-> {q \in Ids : src[q].exists /\ src[q].backend},
     clean |-> {q \in Ids : lastOk[q] /\ ~edited[q]}]

NoInv ==
    [kind |-> "none", force |-> FALSE, id |-> 0, guard |-> FALSE, outcome |-> "none",
     compiles |-> [q \in Ids |-> 0], attempted |-> <<>>, failed |-> {},
     called |-> FALSE, listed |-> FALSE,
     reg0 |-> [state |-> "absent", plugins |-> EmptyRegistry],
     absent |-> {}, routed |-> {}, backend |-> {}, clean |-> {}]

\* No directory walk is being hashed.
NoWalks == <<>>

\* No plugin directory is handed to a PluginBuilder on its own, and none of
\* its steps is followed.
NoPlugin == <<>>

\* extract_routes, setup_backend_build, the wrappers and the process guard play
\* no part in the run.
NotRun == <<>>

\* extract_routes has not run.
NoRoutes == [extracted |-> FALSE, list |-> <<>>]

\* rust_build/ has not been set up.
NoLib ==
    [written |-> FALSE, bridge |-> FALSE, panic |-> "unwind", variant |-> "none",
     wrappers |-> <<>>, router_pub |-> {}]

\* The host is not calling a wrapper.
NoResponse == <<>>

NoCall ==
    [pc |-> "none", wrapper |-> 0, decodable |-> FALSE, invoked |-> FALSE,
     passed |-> FALSE, response |-> <<>>, panicked |-> "none", ret |-> NoResponse]

\* The projects the runs start from: plugin 1 has a frontend, with or without a
\* backend; every other plugin is backend-only or has no source directory.
InitSrc ==
    {[p \in Ids |-> IF p = 1 THEN SrcDir(be, be, TRUE) ELSE d] :
        be \in BOOLEAN, d \in {NoDir, SrcDir(TRUE, TRUE, FALSE)}}

\* Nothing has been built; the cache file or the registry file may be a
\* leftover that cannot be used.
InitFiles ==
    {<<"absent", "absent">>, <<"malformed", "absent">>, <<"unreadable", "absent">>,
     <<"absent", "malformed">>}

Init ==
    /\ src \in InitSrc
    /\ dist = [p \in Ids |-> [js |-> FALSE, lib |-> FALSE]]
    /\ \E st \in InitFiles :
         /\ cache = [state |-> st[1], plugins |-> EmptyCache]
         /\ registry = [state |-> st[2], plugins |-> EmptyRegistry]
    /\ pc = "idle"
    /\ inv = NoInv
    /\ cur = 0
    /\ b = NoBuild
    /\ to_build = <<>>
    /\ skipped = <<>>
    /\ idx = 1
    /\ errors = <<>>
    /\ progress = [p \in Ids |-> "None"]
    /\ BUILD_PROGRESS = FALSE
    /\ lastOk = [p \in Ids |-> FALSE]
    /\ edited = [p \in Ids |-> FALSE]
    /\ ncmd = 0
    /\ nedit = 0
    /\ walks = NoWalks
    /\ digests = <<>>
    /\ plugin = NoPlugin
    /\ routes = NotRun
    /\ lib_rs = NotRun
    /\ call = NotRun
    /\ sys = NotRun
    /\ compile = NotRun

\* ------------------------------------------------------------ the pipeline
\* The steps of PluginBuilder::new and PluginBuilder::build in program order;
\* a build fails at one of them or at none.
Rank(f) ==
    CASE f = "nosrc" -> 1   [] f = "mkdir" -> 1   [] f = "clean" -> 2
      [] f = "bundle" -> 3  [] f = "copyjs" -> 4  [] f = "readjs" -> 4
      [] f = "manifest" -> 5 [] f = "setup" -> 6  [] f = "spawn" -> 7
      [] f = "compile" -> 8 [] f = "nolib" -> 9   [] f = "install" -> 10
      [] f = "cleanup" -> 11 [] f = "none" -> 12

\* The steps that can fail for a source directory s, given whether the bundler
\* left a plugin.js in the build directory.
FailPoints(s, plugin_js) ==
    IF ~s.exists THEN {"nosrc"}
    ELSE {"none", "mkdir", "clean", "cleanup"}
         \cup (IF s.frontend THEN {"bundle"} ELSE {})
         \cup (IF ~s.backend /\ plugin_js THEN {"copyjs"} ELSE {})
         \cup (IF s.backend /\ plugin_js THEN {"readjs"} ELSE {})
         \cup (IF s.backend
                 THEN {"manifest", "setup", "spawn", "compile", "nolib", "install"}
                 ELSE {})

\* compile_backend spawned cargo.
CompilerInvoked(s, f) == s.backend /\ Rank(f) > Rank("spawn")

\* install_dll copied the library into the runtime plugin directory.
LibInstalled(s, f) == s.backend /\ Rank(f) > Rank("install")

\* The frontend-only branch copied plugin.js to <id>.js (only if it exists).
JsInstalled(s, f, plugin_js) == ~s.backend /\ plugin_js /\ Rank(f) > Rank("copyjs")

\* The return of build_plugin_internal with the bug of a batch loop that goes
\* on to the next plugin without complete_plugin.
Return_NoCompletePlugin(ok, b2, inv2) ==
    /\ b' = [b2 EXCEPT !.outcome = IF ok THEN "ok" ELSE "err"]
    /\ lastOk' = [lastOk EXCEPT ![cur] = ok]
    /\ cur' = cur
    /\ IF inv.kind = "build"
         THEN /\ pc' = "done"
              /\ inv' = [inv2 EXCEPT !.outcome = IF ok THEN "ok" ELSE "err",
                                     !.failed = IF ok THEN @ ELSE @ \cup {cur}]
              /\ UNCHANGED batch
         ELSE /\ pc' = "loop"
              /\ inv' = [inv2 EXCEPT !.failed = IF ok THEN @ ELSE @ \cup {cur}]
              /\ errors' = IF ok THEN errors ELSE Append(errors, cur)
              /\ idx' = idx + 1
              /\ UNCHANGED <<to_build, skipped, progress, BUILD_PROGRESS>>

\* build_plugin_internal returns: to build_plugin, or to the loop of
\* build_all_plugins (complete_plugin, errors.push).
Return(ok, b2, inv2) ==
    /\ b' = [b2 EXCEPT !.outcome = IF ok THEN "ok" ELSE "err"]
    /\ lastOk' = [lastOk EXCEPT ![cur] = ok]
    /\ cur' = cur
    /\ IF inv.kind = "build"
         THEN /\ pc' = "done"
              /\ inv' = [inv2 EXCEPT !.outcome = IF ok THEN "ok" ELSE "err",
                                     !.failed = IF ok THEN @ ELSE @ \cup {cur}]
              /\ UNCHANGED batch
         ELSE /\ pc' = "loop"
              /\ inv' = [inv2 EXCEPT !.failed = IF ok THEN @ ELSE @ \cup {cur}]
              /\ progress' = [progress EXCEPT ![cur] = IF ok THEN "Success" ELSE "Failed"]
              /\ errors' = IF ok THEN errors ELSE Append(errors, cur)
              /\ idx' = idx + 1
              /\ UNCHANGED <<to_build, skipped, BUILD_PROGRESS>>

\* PluginBuilder::new followed by PluginBuilder::build.
PluginBuilder_build ==
    /\ pc = "build"
    /\ LET s == src[cur] IN
       \E plugin_js \in (IF s.exists /\ s.frontend THEN BOOLEAN ELSE {FALSE}) :
       \E f \in FailPoints(s, plugin_js) :
         LET lib == LibInstalled(s, f)
             js == JsInstalled(s, f, plugin_js)
             cc == CompilerInvoked(s, f)
             b2 == [b EXCEPT !.info = [has_backend |-> s.backend, has_frontend |-> s.frontend,
                                        routes |-> s.backend /\ s.routes],
                             !.compiled = cc,
                             !.overwrote = (lib /\ dist[cur].lib) \/ (js /\ dist[cur].js)]
             inv2 == [inv EXCEPT !.compiles[cur] = @ + (IF cc THEN 1 ELSE 0)]
         IN  /\ dist' = [dist EXCEPT ![cur] = [js |-> @.js \/ js, lib |-> @.lib \/ lib]]
             /\ IF f = "none"
                  THEN /\ pc' = "cache"
                       /\ b' = b2
                       /\ inv' = inv2
                       /\ UNCHANGED <<cur, lastOk, batch>>
                  ELSE Return(FALSE, b2, inv2)
    /\ UNCHANGED <<src, cache, registry, edited, ncmd, nedit, gen>>

\* update_build_cache: load, hash the source directory as it is now, set, save.
update_build_cache ==
    /\ pc = "cache"
    /\ \E f \in {"none", "cachesave"} :
         IF cache.state = "unreadable" \/ f = "cachesave"
           THEN /\ Return(FALSE, b, inv)
                /\ UNCHANGED <<cache, edited>>
           ELSE /\ cache' = [state |-> "ok",
                             plugins |-> [BuildCache_load EXCEPT ![cur] =
                                 [present |-> TRUE,
                                  source_hash |-> calculate_plugin_hash(src[cur])]]]
                /\ edited' = [edited EXCEPT ![cur] = FALSE]
                /\ b' = [b EXCEPT !.cacheWritten = TRUE]
                /\ pc' = "config"
                /\ UNCHANGED <<cur, inv, lastOk, batch>>
    /\ UNCHANGED <<src, dist, registry, ncmd, nedit, gen>>

\* update_config_for_plugin: read package.json, build the entry, load the
\* registry, upsert, save.
update_config_for_plugin ==
    /\ pc = "config"
    /\ \E f \in {"none", "pkgjson", "cfgsave"} :
         LET fails == f # "none" \/ registry.state = "malformed" IN
         /\ registry' = SavedRegistry(cur, ConfigEntry(b.info), fails)
         /\ IF fails
              THEN Return(FALSE, b, inv)
              ELSE Return(TRUE, [b EXCEPT !.cfgWritten = TRUE], inv)
    /\ UNCHANGED <<src, dist, cache, edited, ncmd, nedit, gen>>

\* --------------------------------------------------------------- commands
\* kill_running_app_processes ran in this invocation (package_app calls it;
\* build_plugin and build_all_plugins do not).
kill_running_app_processes(i) == [i EXCEPT !.guard = TRUE]

ResetBatch ==
    /\ to_build' = <<>>
    /\ skipped' = <<>>
    /\ idx' = 1
    /\ errors' = <<>>
    /\ progress' = [p \in Ids |-> "None"]
    /\ BUILD_PROGRESS' = FALSE

\* build_plugin(plugin_id, force).  repo: get_plugins_dir()/get_dist_plugins_dir()
\* succeed (the command runs inside a project).
build_plugin ==
    /\ pc = "idle"
    /\ ncmd < MaxCmds
    /\ ncmd' = ncmd + 1
    /\ \E p \in Ids, force \in BOOLEAN, repo \in BOOLEAN :
         LET i == NewInv("build", force, p, FALSE) IN
         IF ~repo
           THEN /\ inv' = [i EXCEPT !.outcome = "err"]
                /\ pc' = "done"
                /\ UNCHANGED <<cur, b>>
           ELSE IF SkipSingle(p, force)
           THEN /\ inv' = [i EXCEPT !.outcome = "uptodate"]
                /\ pc' = "done"
                /\ UNCHANGED <<cur, b>>
           ELSE /\ inv' = i
                /\ pc' = "build"
                /\ cur' = p
                /\ b' = NewBuild(p)
    /\ UNCHANGED <<disk, batch, lastOk, edited, nedit, gen>>

\* The orders in which fs::read_dir may list the plugin directories.
RECURSIVE ReadDirOrders(_)
ReadDirOrders(S) ==
    IF S = {} THEN {<<>>}
    ELSE UNION {{<<x>> \o o : o \in ReadDirOrders(S \ {x})} : x \in S}

\* BuildProgress::new with the bug of leaving the skipped plugins out.
BuildProgress_new_NoSkipped(tb, sk) ==
    [p \in Ids |-> IF \E k \in 1..Len(tb) : tb[k] = p THEN "Pending" ELSE "None"]

\* BuildProgress::new: to_build Pending, skipped Skipped.
BuildProgress_new(tb, sk) ==
    [p \in Ids |-> IF \E k \in 1..Len(tb) : tb[k] = p THEN "Pending"
                   ELSE IF \E k \in 1..Len(sk) : sk[k] = p THEN "Skipped"
                   ELSE "None"]

\* build_all_plugins(force) up to the start of its loop, for an invocation i.
BatchBegin(i, force) ==
    \E repo \in BOOLEAN, plugins \in ReadDirOrders({p \in Ids : src[p].exists}) :
      LET Build(p) == ~SkipBatch(p, force)
          Skip(p) == SkipBatch(p, force)
          tb == SelectSeq(plugins, Build)
          sk == SelectSeq(plugins, Skip)
      IN  IF ~repo
            THEN /\ inv' = [i EXCEPT !.outcome = "err", !.called = TRUE]
                 /\ UNCHANGED batch
                 /\ pc' = "done"
            ELSE IF tb = <<>>
            THEN /\ inv' = [i EXCEPT !.outcome = "ok", !.called = TRUE, !.listed = TRUE]
                 /\ skipped' = sk
                 /\ UNCHANGED <<to_build, idx, errors, progress, BUILD_PROGRESS>>
                 /\ pc' = "done"
            ELSE /\ inv' = [i EXCEPT !.called = TRUE, !.listed = TRUE]
                 /\ to_build' = tb
                 /\ skipped' = sk
                 /\ idx' = 1
                 /\ errors' = <<>>
                 /\ progress' = BuildProgress_new(tb, sk)
                 /\ BUILD_PROGRESS' = TRUE
                 /\ pc' = "loop"

build_all_plugins ==
    /\ pc = "idle"
    /\ ncmd < MaxCmds
    /\ ncmd' = ncmd + 1
    /\ \E force \in BOOLEAN : BatchBegin(NewInv("buildall", force, 0, FALSE), force)
    /\ UNCHANGED <<disk, cur, b, lastOk, edited, nedit, gen>>

\* package_app up to and including its call of build_all_plugins(!no_rebuild):
\* the guard, then write_to_cargo_toml (config_ok), then the batch.
package_app ==
    /\ pc = "idle"
    /\ ncmd < MaxCmds
    /\ ncmd' = ncmd + 1
    /\ \E no_rebuild \in BOOLEAN, config_ok \in BOOLEAN :
         LET i == kill_running_app_processes(NewInv("package", ~no_rebuild, 0, FALSE)) IN
         IF ~config_ok
           THEN /\ inv' = [i EXCEPT !.outcome = "err"]
                /\ UNCHANGED batch
                /\ pc' = "done"
           ELSE BatchBegin(i, ~no_rebuild)
    /\ UNCHANGED <<disk, cur, b, lastOk, edited, nedit, gen>>

\* The loop of build_all_plugins: progress.start_plugin, then the pipeline.
start_plugin ==
    /\ pc = "loop"
    /\ idx <= Len(to_build)
    /\ cur' = to_build[idx]
    /\ progress' = [progress EXCEPT ![to_build[idx]] = "Building"]
    /\ b' = NewBuild(to_build[idx])
    /\ inv' = [inv EXCEPT !.attempted = Append(@, to_build[idx])]
    /\ pc' = "build"
    /\ UNCHANGED <<disk, to_build, skipped, idx, errors, BUILD_PROGRESS, lastOk, edited, ncmd, nedit, gen>>

\* build_all_plugins with the bug of returning Ok whatever the loop collected.
BatchResult_AlwaysOk(errs) == "ok"

\* The result of build_all_plugins after its loop: bail if errors is not empty.
BatchResult(errs) == IF errs # <<>> THEN "err" ELSE "ok"

\* BuildProgress::finish: the skip count of the summary line.
skipped_count == Cardinality({p \in Ids : progress[p] = "Skipped"})

\* The end of build_all_plugins with the bug of returning without
\* set_build_progress(None).
finish_batch_NoClear ==
    /\ pc = "loop"
    /\ idx > Len(to_build)
    /\ inv' = [inv EXCEPT !.outcome = BatchResult(errors)]
    /\ pc' = "done"
    /\ UNCHANGED <<disk, cur, b, to_build, skipped, idx, errors, progress, BUILD_PROGRESS,
                   lastOk, edited, ncmd, nedit, gen>>

\* After the loop: set_build_progress(None), progress.finish, and the result.
finish_batch ==
    /\ pc = "loop"
    /\ idx > Len(to_build)
    /\ BUILD_PROGRESS' = FALSE
    /\ inv' = [inv EXCEPT !.outcome = BatchResult(errors)]
    /\ pc' = "done"
    /\ UNCHANGED <<disk, cur, b, to_build, skipped, idx, errors, progress, lastOk, edited, ncmd, nedit, gen>>

\* The process exits: its memory is gone, the disk stays.
exit ==
    /\ pc = "done"
    /\ pc' = "idle"
    /\ inv' = NoInv
    /\ cur' = 0
    /\ b' = NoBuild
    /\ ResetBatch
    /\ UNCHANGED <<disk, lastOk, edited, ncmd, nedit, gen>>

\* ------------------------------------------------------- the user's edits
\* The user edits at any point of a command and between commands.  (An edit
\* made after the command has returned is an edit made after its exit.)
Edit(p, s) ==
    /\ pc # "done"
    /\ nedit < MaxEdits
    /\ nedit' = nedit + 1
    /\ src' = [src EXCEPT ![p] = s]
    /\ edited' = [edited EXCEPT ![p] = TRUE]
    /\ UNCHANGED <<dist, cache, registry, pc, inv, cur, b, batch, lastOk, ncmd, gen>>

\* The content of assets/data.json is changed.
EditData ==
    \E p \in Ids, v \in 0..MaxVer :
      /\ src[p].exists
      /\ v # src[p].data
      /\ Edit(p, [src[p] EXCEPT !.data = v])

\* assets/data.json becomes unreadable, or readable again.
Chmod ==
    \E p \in Ids, a \in {"ok", "noread"} :
      /\ src[p].exists
      /\ a # src[p].access
      /\ Edit(p, [src[p] EXCEPT !.access = a])

\* The plugin's source directory is deleted.
RemoveDir ==
    \E p \in Ids :
      /\ src[p].exists
      /\ Edit(p, NoDir)

Next ==
    \/ build_plugin
    \/ build_all_plugins
    \/ package_app
    \/ start_plugin
    \/ PluginBuilder_build
    \/ update_build_cache
    \/ update_config_for_plugin
    \/ finish_batch
    \/ exit
    \/ EditData
    \/ Chmod
    \/ RemoveDir

Spec == Init /\ [][Next]_vars

\* ------------------------------------------------------------------ claims
\* The artifact a build of plugin p is expected to install, given the build
\* info: the library for a backend plugin, <id>.js for a frontend-only one.
ArtifactInstalled(p, has_backend) == IF has_backend THEN dist[p].lib ELSE dist[p].js

\* C1: a cache entry is written only by a build that succeeded end-to-end:
\* once update_build_cache has written the entry of the plugin being built,
\* the expected artifact exists in the runtime plugin directory and the build
\* is not reported as failed.
C1_CacheWrittenOnlyByFullSuccess ==
    b.cacheWritten =>
        /\ ArtifactInstalled(b.id, b.info.has_backend)
        /\ b.outcome # "err"

\* C2: after a build invocation has returned, the cache entry and the registry
\* entry of the plugin were both updated by it or neither was.
C2_CacheAndRegistryTogether ==
    b.outcome \in {"ok", "err"} => (b.cacheWritten <=> b.cfgWritten)

\* C3: if the last build of a plugin succeeded and its sources are unchanged
\* since, plugin_needs_rebuild returns false for it.
C3_UnchangedNeedsNoRebuild ==
    \A p \in Ids :
        (pc \in {"idle", "done"} /\ lastOk[p] /\ ~edited[p]) => plugin_needs_rebuild(p) = "false"

\* The three conditions of the rebuild decision, read off the disk: the
\* artifact plugin_needs_rebuild looks for, the entry in the cache file, and
\* the stored digest against the digest of the source directory as it is.
ArtifactPresent(p) ==
    IF src[p].exists /\ src[p].backend THEN dist[p].lib ELSE dist[p].js
EntryPresent(p) == cache.state = "ok" /\ cache.plugins[p].present
DigestsEqual(p) ==
    EntryPresent(p) /\ cache.plugins[p].source_hash = calculate_plugin_hash(src[p])

\* C4 as stated: plugin_needs_rebuild returns true if the artifact is absent,
\* or the cache has no entry for the plugin, or the stored digest differs from
\* the fresh one; it returns false exactly when the artifact exists, an entry
\* exists and the digests are equal.
C4_DecisionAsStated ==
    \A p \in Ids :
        /\ (~ArtifactPresent(p) \/ ~EntryPresent(p) \/ ~DigestsEqual(p))
               => plugin_needs_rebuild(p) = "true"
        /\ plugin_needs_rebuild(p) = "false"
               <=> (ArtifactPresent(p) /\ EntryPresent(p) /\ DigestsEqual(p))

\* C4, amended: the same, except that with the artifact present and a cache
\* file that exists but cannot be read, plugin_needs_rebuild returns an error
\* (neither true nor false).
C4_DecisionAmended ==
    \A p \in Ids :
        LET decision == plugin_needs_rebuild(p)
            artifact == ArtifactPresent(p)
            entry == EntryPresent(p)
            equal == DigestsEqual(p)
        IN  /\ ~artifact => decision = "true"
            /\ (artifact /\ cache.state = "unreadable") => decision = "err"
            /\ (artifact /\ cache.state # "unreadable" /\ (~entry \/ ~equal))
                   => decision = "true"
            /\ decision = "false" <=> (artifact /\ entry /\ equal)

\* C4 witness: for one plugin the decision is false while for the other the
\* artifact exists and the decision is true.
C4_Witness ==
    \E p, q \in Ids :
        /\ plugin_needs_rebuild(p) = "false"
        /\ ArtifactPresent(q)
        /\ plugin_needs_rebuild(q) = "true"

\* An I/O failure awaits the rebuild decision for p: the cache file cannot be
\* read or parsed, the source directory cannot be walked, or a source file
\* cannot be read.
IOFailure(p) ==
    \/ cache.state \in {"malformed", "unreadable"}
    \/ ~src[p].exists
    \/ src[p].access = "noread"

\* C5: any I/O failure while computing the rebuild decision results in the
\* plugin being built, never skipped, by the single build and by the batch
\* build with force=false.
C5_IOFailureRebuilds ==
    \A p \in Ids :
        IOFailure(p) => (~SkipSingle(p, FALSE) /\ ~SkipBatch(p, FALSE))

\* C6: every plugin build that reached the compile step, or a copy that
\* overwrote an installed artifact, belongs to an invocation in which
\* kill_running_app_processes ran before.
C6_GuardBeforeCompile ==
    (b.compiled \/ b.overwrote) => b.guard

IsPrefix(s, t) == Len(s) <= Len(t) /\ \A k \in 1..Len(s) : s[k] = t[k]

BatchReturned == pc = "done" /\ inv.called

\* C8 as stated: the batch attempts the selected plugins once each, in order,
\* and build_all_plugins returns an error if and only if at least one
\* attempted plugin failed.
C8_BatchAsStated ==
    /\ inv.called => IsPrefix(inv.attempted, to_build)
    /\ BatchReturned =>
          /\ inv.attempted = to_build
          /\ inv.outcome = "err" <=> inv.failed # {}

\* C8, amended: build_all_plugins returns an error without attempting any
\* plugin when the plugin directories cannot be listed; otherwise it attempts
\* the selected plugins once each, in order, whatever failed before, and
\* returns an error if and only if at least one attempted plugin failed.
C8_BatchAmended ==
    /\ inv.called => IsPrefix(inv.attempted, to_build)
    /\ (BatchReturned /\ ~inv.listed) =>
          /\ inv.outcome = "err"
          /\ inv.attempted = <<>>
    /\ (BatchReturned /\ inv.listed) =>
          /\ inv.attempted = to_build
          /\ \A j, k \in 1..Len(to_build) : to_build[j] = to_build[k] => j = k
          /\ inv.outcome = "err" <=> inv.failed # {}
          /\ inv.failed = {errors[k] : k \in 1..Len(errors)}

\* C8 witness: a batch of two plugins has returned an error after the first
\* plugin failed and the second was attempted all the same.
C8_Witness ==
    /\ BatchReturned
    /\ Len(inv.attempted) = 2
    /\ inv.attempted[1] \in inv.failed
    /\ inv.attempted[2] \notin inv.failed
    /\ inv.outcome = "err"

\* C9: build_plugin returns an error whenever the plugin's source directory is
\* absent or a step of its pipeline fails, and never reports a plugin without
\* a source directory as up to date.
C9_SingleBuildFails ==
    (pc = "done" /\ inv.kind = "build") =>
        /\ inv.id \in inv.absent => inv.outcome = "err"
        /\ inv.id \in inv.failed => inv.outcome = "err"

Unchanged(p) == p \in inv.clean /\ p \in inv.routed

SingleReturned == pc = "done" /\ inv.kind = "build"

C10_ForcedReached ==
    /\ SingleReturned
    /\ inv.force
    /\ Unchanged(inv.id)
    /\ inv.compiles[inv.id] = 1
    /\ inv.outcome = "ok"

\* An unforced batch over backend plugins only has returned after its loop:
\* Listed are its n plugins, Kept the k of them unchanged since their last
\* successful build, Changed the n-k others.
Listed == Ids \ inv.absent
Kept == Listed \cap inv.clean
Changed == Listed \ inv.clean
UnforcedBackendBatch ==
    /\ pc = "done"
    /\ inv.kind \in {"buildall", "package"}
    /\ inv.listed
    /\ ~inv.force
    /\ Listed \subseteq inv.backend
    /\ Changed # {}

\* C11: in an unforced batch over n backend plugins, k unchanged and n-k > 0
\* changed, the compiler is invoked once for every changed plugin and for no
\* other, and the reported skip count is k.  (Stated for the batches in which
\* no attempted plugin failed.)
C11_BatchCompilesChangedOnly ==
    (UnforcedBackendBatch /\ inv.failed = {}) =>
        /\ \A p \in Changed : inv.compiles[p] = 1
        /\ \A p \in Kept : inv.compiles[p] = 0
        /\ skipped_count = Cardinality(Kept)

Building == {p \in Ids : progress[p] = "Building"}

InPipeline == pc \in {"build", "cache", "config"}

\* C12: a batch builds one plugin at a time: at most one plugin has status
\* Building; while a pipeline runs it is the pipeline of the one plugin that
\* is Building and every plugin attempted before it is Success or Failed;
\* between two pipelines no plugin is Building.
C12_OneAtATime ==
    inv.called =>
        /\ Cardinality(Building) <= 1
        /\ InPipeline =>
              /\ Building = {cur}
              /\ cur = inv.attempted[Len(inv.attempted)]
              /\ \A k \in 1..(Len(inv.attempted) - 1) :
                    progress[inv.attempted[k]] \in {"Success", "Failed"}
        /\ ~InPipeline =>
              /\ Building = {}
              /\ \A k \in 1..Len(inv.attempted) :
                    progress[inv.attempted[k]] \in {"Success", "Failed"}

\* C12 witness: the pipeline of the second plugin of a batch is running, the
\* first plugin has been marked.
C12_Witness ==
    /\ inv.called
    /\ pc = "cache"
    /\ Len(inv.attempted) = 2
    /\ progress[inv.attempted[1]] \in {"Success", "Failed"}
    /\ progress[inv.attempted[2]] = "Building"

\* ------------------------------------- calculate_plugin_hash on any walk
\* File names and file contents are strings over a few tokens, none of which
\* is a prefix of another, so that two token sequences are equal exactly when
\* the byte strings they spell are equal.  "a.js" and "b.js" differ in one
\* byte.
MaxName == 3

SrcTokens == {"a.js", "b.js"}
LockNames == {<<"package-lock.json">>, <<"bun.lockb">>, <<"Cargo.lock">>}
ArtifactDirs == {"target", "node_modules", ".git"}

\* Byte order of the tokens ('C' < 'a' < 'b' < 'p').
TokenRank(t) ==
    CASE t = "Cargo.lock" -> 1 [] t = "a.js" -> 2 [] t = "b.js" -> 3
      [] t = "bun.lockb" -> 4  [] t = "package-lock.json" -> 5

RECURSIVE SeqsUpTo(_, _)
SeqsUpTo(S, n) ==
    IF n = 0 THEN {<<>>}
    ELSE LET r == SeqsUpTo(S, n - 1) IN r \cup {Append(s, x) : s \in r, x \in S}

Names == SeqsUpTo(SrcTokens, MaxName) \ {<<>>}
Contents == {<<>>, <<"a.js">>}

\* The extension of a file name: what follows its last dot.
Extension(name) ==
    LET last == name[Len(name)]
    IN  CASE last \in SrcTokens -> "js"
          [] last = "package-lock.json" -> "json"
          [] last = "Cargo.lock" -> "lock"
          [] last = "bun.lockb" -> "lockb"

is_source(e) ==
    Extension(e.name) \in {"rs", "jsx", "js", "ts", "tsx", "json", "toml", "css", "scss"}

\* path.components().any(..) runs over the whole path of the entry, the
\* components of plugin_dir included.
is_build_artifact(plugin_dir, e) ==
    \/ \E k \in 1..Len(plugin_dir) : plugin_dir[k] \in ArtifactDirs
    \/ e.dir \in ArtifactDirs

\* The lock-file test with the bug of knowing Cargo.lock only.
is_lock_file_CargoOnly(e) == e.name = <<"Cargo.lock">>

is_lock_file(e) == e.name \in LockNames

\* The Vec files after the walk loop, in the order of the walk.
Retained(plugin_dir, walk) ==
    LET Keep(e) == is_source(e) /\ ~is_build_artifact(plugin_dir, e) /\ ~is_lock_file(e)
    IN  SelectSeq(walk, Keep)

\* file.strip_prefix(plugin_dir) as a string.
RelPath(e) == IF e.dir = "" THEN e.name ELSE <<e.dir, "/">> \o e.name

\* The order of files.sort() on the paths of one directory: byte-wise.
RECURSIVE PathLess(_, _)
PathLess(p, q) ==
    IF q = <<>> THEN FALSE
    ELSE IF p = <<>> THEN TRUE
    ELSE IF Head(p) # Head(q) THEN TokenRank(Head(p)) < TokenRank(Head(q))
    ELSE PathLess(Tail(p), Tail(q))

\* files.sort() ignoring the order of the walk.
FilesSort_WalkOrder(files) ==
    {[rank |-> k, path |-> RelPath(files[k]), readable |-> files[k].readable,
      content |-> files[k].content] : k \in 1..Len(files)}

\* files.sort(): every file with its position in the sorted Vec.
FilesSort(files) ==
    {[rank |-> 1 + Cardinality({j \in 1..Len(files) :
                                   PathLess(RelPath(files[j]), RelPath(files[k]))}),
      path |-> RelPath(files[k]), readable |-> files[k].readable,
      content |-> files[k].content] : k \in 1..Len(files)}

\* calculate_plugin_hash for the walk of a directory plugin_dir.
calculate_plugin_hash_walk(plugin_dir, walk) ==
    HashStream(FilesSort(Retained(plugin_dir, walk)))

\* The inputs: a directory of one or two files with allow-listed extension
\* (a second file is readable), in a plugin directory that may itself be
\* called target, and a second walk that differs from the first by one change.
PluginDirs == {<<"plugins", "demo">>, <<"plugins", "target">>}
SourceFiles == [dir : {""}, name : Names, content : Contents, readable : BOOLEAN]
IgnoredFiles ==
    [dir : ArtifactDirs, name : {<<"a.js">>}, content : Contents, readable : {TRUE}]
    \cup [dir : {""}, name : LockNames, content : Contents, readable : {TRUE}]

SourceWalks ==
    {<<f>> : f \in SourceFiles}
    \cup {<<x[1], x[2]>> : x \in {y \in SourceFiles \X SourceFiles :
                                        y[2].readable /\ y[1].name # y[2].name}}

OtherByte(c) == IF c = <<"a.js">> THEN <<"b.js">> ELSE <<"a.js">>

\* One byte of the content of file k is changed.
ByteChanges(w) ==
    {[a |-> w, b |-> [w EXCEPT ![k].content = OtherByte(@)], change |-> "byte", at |-> k] :
        k \in {j \in 1..Len(w) : w[j].content # <<>>}}

\* File k is renamed to a name no file of the directory has.
Renames(w) ==
    {[a |-> w, b |-> [w EXCEPT ![x[1]].name = x[2]], change |-> "rename", at |-> x[1]] :
        x \in {y \in (1..Len(w)) \X Names : \A j \in 1..Len(w) : w[j].name # y[2]}}

\* The same entries are enumerated in another order.
Reorders(w) ==
    IF Len(w) < 2 THEN {}
    ELSE {[a |-> w, b |-> <<w[2], w[1]>>, change |-> "order", at |-> 0]}

\* A file under an excluded directory or a lock file is added (or, read from
\* b to a, removed), or its content is changed.
IgnoredChanges(w) ==
    {[a |-> w, b |-> Append(w, o), change |-> "ignored", at |-> 0] : o \in IgnoredFiles}
    \cup {[a |-> <<o>> \o w, b |-> <<[o EXCEPT !.content = OtherByte(@)]>> \o w,
           change |-> "ignored", at |-> 0] : o \in IgnoredFiles}

HashCases(w) == ByteChanges(w) \cup Renames(w) \cup Reorders(w) \cup IgnoredChanges(w)

InitHash ==
    /\ src = [p \in Ids |-> NoDir]
    /\ dist = [p \in Ids |-> [js |-> FALSE, lib |-> FALSE]]
    /\ cache = [state |-> "absent", plugins |-> EmptyCache]
    /\ registry = [state |-> "absent", plugins |-> EmptyRegistry]
    /\ pc = "idle"
    /\ inv = NoInv
    /\ cur = 0
    /\ b = NoBuild
    /\ to_build = <<>>
    /\ skipped = <<>>
    /\ idx = 1
    /\ errors = <<>>
    /\ progress = [p \in Ids |-> "None"]
    /\ BUILD_PROGRESS = FALSE
    /\ lastOk = [p \in Ids |-> FALSE]
    /\ edited = [p \in Ids |-> FALSE]
    /\ ncmd = 0
    /\ nedit = 0
    /\ \E d \in PluginDirs, w \in SourceWalks : \E c \in HashCases(w) :
          walks = [plugin_dir |-> d, a |-> c.a, b |-> c.b, change |-> c.change, at |-> c.at]
    /\ digests = <<>>
    /\ plugin = NoPlugin
    /\ routes = NotRun
    /\ lib_rs = NotRun
    /\ call = NotRun
    /\ sys = NotRun
    /\ compile = NotRun

\* calculate_plugin_hash is run on both walks.
calculate_plugin_hash_run ==
    /\ digests = <<>>
    /\ digests' = <<calculate_plugin_hash_walk(walks.plugin_dir, walks.a),
                    calculate_plugin_hash_walk(walks.plugin_dir, walks.b)>>
    /\ UNCHANGED <<src, dist, cache, registry, pc, inv, cur, b, batch, lastOk, edited,
                   ncmd, nedit, walks, plugin, routes, lib_rs, call, sys, compile>>

NextHash == calculate_plugin_hash_run

SpecHash == InitHash /\ [][NextHash]_vars

Digested == digests # <<>>

\* The file the change of walks is about is one calculate_plugin_hash is meant
\* to hash: allow-listed extension, not under an excluded directory of the
\* plugin, not a lock file, and readable.
IncludedFile(e) ==
    is_source(e) /\ e.dir \notin ArtifactDirs /\ ~is_lock_file(e) /\ e.readable

\* C13: changing one byte of a file with an allow-listed extension changes the
\* digest, and so does renaming such a file.  (Stated for the files that are
\* readable, outside the excluded directories and not lock files.)
C13_ByteAndRenameChangeDigest ==
    (Digested /\ walks.change \in {"byte", "rename"} /\ IncludedFile(walks.a[walks.at]))
        => digests[1] # digests[2]

\* C13, the half on content alone, for a plugin directory with no component
\* called target, node_modules or .git.
C13_ByteChangesDigest ==
    (Digested /\ walks.change = "byte" /\ IncludedFile(walks.a[walks.at])
        /\ walks.plugin_dir = <<"plugins", "demo">>)
        => digests[1] # digests[2]

\* C14: two walks that yield the same entries in different orders give the
\* same digest.
C14_OrderInvariant ==
    (Digested /\ walks.change = "order") => digests[1] = digests[2]

\* C14 witness: two different orders of two retained readable files with
\* different contents were hashed.
C14_Witness ==
    /\ Digested
    /\ walks.change = "order"
    /\ walks.a # walks.b
    /\ Len(Retained(walks.plugin_dir, walks.a)) = 2
    /\ walks.a[1].readable /\ walks.a[2].readable
    /\ walks.a[1].content # walks.a[2].content
    /\ digests[1] # <<>>

\* C15: two directories that differ only in files under target, node_modules
\* or .git, or in files named package-lock.json, bun.lockb or Cargo.lock, have
\* the same digest.
C15_IgnoredFilesDoNotCount ==
    (Digested /\ walks.change = "ignored") => digests[1] = digests[2]

\* C15 witness: a directory with a retained file was hashed with and without a
\* package-lock.json (allow-listed extension json).
C15_Witness ==
    /\ Digested
    /\ walks.change = "ignored"
    /\ Len(walks.b) = Len(walks.a) + 1
    /\ walks.b[Len(walks.b)].name = <<"package-lock.json">>
    /\ digests[1] # <<>>

\* -------------------------------------------- extract_routes on any table
MaxKey == 3

\* A key of the [routes] table is a string.  It is written as the sequence of
\* its pieces: "GET" and "/x" hold neither a space nor a tab, so the first
\* space of the string is the first " " of the sequence.
KeyTokens == {"GET", "/x", " ", "\t"}

RouteKeys == SeqsUpTo(KeyTokens, MaxKey)

\* The values of the table: TOML strings (handler names) and a value that is
\* not a string.
Str(s) == [is_str |-> TRUE, text |-> s]

NotStr == [is_str |-> FALSE, text |-> "1"]

\* Position of the first piece of key that is in set (0: none).
FirstOf(key, set) ==
    IF \E i \in 1..Len(key) : key[i] \in set
    THEN CHOOSE i \in 1..Len(key) : key[i] \in set /\ \A j \in 1..(i - 1) : key[j] \notin set
    ELSE 0

\* key.splitn(2, ' '): the text before the first space and the text after it,
\* or the whole key when it holds no space.
splitn(key) ==
    LET i == FirstOf(key, {" "})
    IN  IF i = 0 THEN <<key>> ELSE <<SubSeq(key, 1, i - 1), SubSeq(key, i + 1, Len(key))>>

\* The loop of extract_routes over the table, in the table's iteration order.
RECURSIVE RoutesOf(_)
RoutesOf(table) ==
    IF table = <<>> THEN <<>>
    ELSE LET key == Head(table).key
             value == Head(table).value
             parts == splitn(key)
         IN  (IF value.is_str /\ Len(parts) = 2
              THEN <<[method |-> parts[1], path |-> parts[2], handler |-> value.text]>>
              ELSE <<>>) \o RoutesOf(Tail(table))

\* Cargo.toml of the plugin: missing, not readable as text, not TOML, without
\* a [routes] table, or with one.
CargoKinds == {"absent", "unreadable", "unparsable", "no_routes", "table"}

\* extract_routes returns Err when read_to_string fails on Cargo.toml.
extract_routes_is_err(p) == p.cargo = "unreadable"

\* extract_routes().unwrap_or_default(): the list of extract_routes, or the
\* empty list for Err.
extract_routes(p) == IF p.cargo = "table" THEN RoutesOf(p.table) ELSE <<>>

\* create_manifest: let routes = self.extract_routes()?
create_manifest(p) == IF extract_routes_is_err(p) THEN "Err" ELSE "Ok"

\* No command of the tool is running and nothing was built.
NoCommand ==
    /\ src = [p \in Ids |-> NoDir]
    /\ dist = [p \in Ids |-> [js |-> FALSE, lib |-> FALSE]]
    /\ cache = [state |-> "absent", plugins |-> EmptyCache]
    /\ registry = [state |-> "absent", plugins |-> EmptyRegistry]
    /\ pc = "idle"
    /\ inv = NoInv
    /\ cur = 0
    /\ b = NoBuild
    /\ to_build = <<>>
    /\ skipped = <<>>
    /\ idx = 1
    /\ errors = <<>>
    /\ progress = [p \in Ids |-> "None"]
    /\ BUILD_PROGRESS = FALSE
    /\ lastOk = [p \in Ids |-> FALSE]
    /\ edited = [p \in Ids |-> FALSE]
    /\ ncmd = 0
    /\ nedit = 0
    /\ walks = NoWalks
    /\ digests = <<>>

main == <<src, dist, cache, registry, pc, inv, cur, b, batch, lastOk, edited, ncmd, nedit,
          walks, digests, sys, compile>>

\* The tables extract_routes is run on: none, one or two entries with
\* different keys, in the order the table yields them.
RouteEntries == {[key |-> k, value |-> v] : k \in RouteKeys, v \in {Str("handle_a"), NotStr}}

RouteTables ==
    {<<>>} \cup {<<e>> : e \in RouteEntries}
    \cup {<<x[1], x[2]>> : x \in {y \in RouteEntries \X RouteEntries : y[1].key # y[2].key}}

InitRoutes ==
    /\ NoCommand
    /\ \E c \in CargoKinds : \E t \in (IF c = "table" THEN RouteTables ELSE {<<>>}) :
          plugin = [cargo |-> c, table |-> t, panic |-> "unwind", router |-> FALSE,
                    decl |-> <<>>]
    /\ routes = NoRoutes
    /\ lib_rs = NoLib
    /\ call = NoCall
    /\ sys = NotRun
    /\ compile = NotRun

\* PluginBuilder::build: let routes = self.extract_routes().unwrap_or_default()
extract_routes_run ==
    /\ ~routes.extracted
    /\ ~lib_rs.written
    /\ routes' = [extracted |-> TRUE, list |-> extract_routes(plugin)]
    /\ UNCHANGED <<main, plugin, lib_rs, call>>

NextRoutes == extract_routes_run

SpecRoutes == InitRoutes /\ [][NextRoutes]_vars

\* The reading of a key the manifest is meant to carry: whitespace is a space
\* or a tab, and a key is well formed when text stands on both sides of its
\* first whitespace.
Whitespace == {" ", "\t"}

WellFormedKey(key) == FirstOf(key, Whitespace) > 1 /\ FirstOf(key, Whitespace) < Len(key)

RECURSIVE WellFormedRoutes(_)
WellFormedRoutes(table) ==
    IF table = <<>> THEN <<>>
    ELSE LET key == Head(table).key
             value == Head(table).value
             i == FirstOf(key, Whitespace)
         IN  (IF value.is_str /\ WellFormedKey(key)
              THEN <<[method |-> SubSeq(key, 1, i - 1), path |-> SubSeq(key, i + 1, Len(key)),
                      handler |-> value.text]>>
              ELSE <<>>) \o WellFormedRoutes(Tail(table))

\* C16: the extracted route list has exactly one entry {method, path, handler}
\* for every key with a string value that splits on its first whitespace into
\* a method and a path, and none for any other key.
C16_OneRoutePerWellFormedKey ==
    routes.extracted => routes.list = WellFormedRoutes(plugin.table)

\* C16, on the keys whose only whitespace is one space with text on both
\* sides, and on the keys with no whitespace.
C16_PlainKeys ==
    (routes.extracted
        /\ \A i \in 1..Len(plugin.table) :
              LET key == plugin.table[i].key
              IN  \/ FirstOf(key, Whitespace) = 0
                  \/ (WellFormedKey(key) /\ key[FirstOf(key, Whitespace)] = " "))
        => routes.list = WellFormedRoutes(plugin.table)

\* ------------------------------------------------ the generated rust_build
MaxRoutes == 3

HandlerNames == {"handle_a", "handle_b"}

\* A handler in the plugin's router.rs: not there, or an async fn returning
\* HttpResponse, declared with or without pub, with its parameter list as
\* written between the parentheses (pieces of text, <<>>: nothing).
ParamLists == {<<>>, <<"req", ":", "HttpRequest">>}

Undeclared == [declared |-> FALSE, is_pub |-> FALSE, params |-> <<>>]

Decls ==
    {Undeclared} \cup {[declared |-> TRUE, is_pub |-> pb, params |-> ps] :
                          pb \in BOOLEAN, ps \in ParamLists}

\* has_routes: Cargo.toml parses and its [routes] table is not empty.
has_routes_Parsed(p) == p.cargo # "unparsable"

has_routes(p) == p.cargo = "table" /\ p.table # <<>>

\* extract_handlers, first loop: the string values of the table in the
\* table's order, each pushed unless already in handlers.
RECURSIVE PushHandlers_NoDedup(_, _)
PushHandlers_NoDedup(handlers, table) ==
    IF table = <<>> THEN handlers
    ELSE LET value == Head(table).value
         IN  PushHandlers_NoDedup(IF value.is_str THEN Append(handlers, value.text)
                                  ELSE handlers, Tail(table))

RECURSIVE PushHandlers(_, _)
PushHandlers(handlers, table) ==
    IF table = <<>> THEN handlers
    ELSE LET value == Head(table).value
         IN  PushHandlers(IF value.is_str /\ ~\E i \in 1..Len(handlers) : handlers[i] = value.text
                          THEN Append(handlers, value.text)
                          ELSE handlers, Tail(table))

contains(params, piece) == \E i \in 1..Len(params) : params[i] = piece

\* extract_handlers, second loop: takes_request of one handler, from the
\* first match of ^pub\s+async\s+fn\s+NAME\s*\(([^)]*)\) in plugin_dir/router.rs.
takes_request(p, handler_name) ==
    /\ p.router
    /\ p.decl[handler_name].declared
    /\ p.decl[handler_name].is_pub
    /\ LET params_str == p.decl[handler_name].params
       IN  /\ params_str # <<>>
           /\ (contains(params_str, "HttpRequest") \/ contains(params_str, "Request")
               \/ contains(params_str, ":"))

extract_handlers(p) ==
    LET handlers == IF p.cargo = "table" THEN PushHandlers(<<>>, p.table) ELSE <<>>
    IN  [i \in 1..Len(handlers) |->
            [handler_name |-> handlers[i], takes_request |-> takes_request(p, handlers[i])]]

\* copy_rust_files: in the copy of router.rs every ^async fn NAME(...) ->
\* HttpResponse is made pub; the functions of the copy the shim can name.
copy_rust_files(p) ==
    IF p.router THEN {h \in HandlerNames : p.decl[h].declared} ELSE {}

\* create_lib_rs: handler_wrappers, one per element of extract_handlers, and
\* the variant of lib_content.
handler_wrappers(p, hr) ==
    IF ~hr THEN <<>>
    ELSE LET handlers == extract_handlers(p)
         IN  [i \in 1..Len(handlers) |->
                 [name |-> handlers[i].handler_name,
                  handler_call |-> IF handlers[i].takes_request THEN "http_request" ELSE "no_argument"]]

\* setup_backend_build: the Cargo.toml of rust_build (the plugin's own, with
\* the api dependency and the [lib] section put in), the copied sources and
\* lib.rs.
setup_backend_build(p, hr) ==
    [written |-> TRUE,
     bridge |-> hr,
     panic |-> IF p.cargo = "absent" THEN "unwind" ELSE p.panic,
     variant |-> IF hr THEN "bridge" ELSE "minimal",
     wrappers |-> handler_wrappers(p, hr),
     router_pub |-> copy_rust_files(p)]

\* rust_build of a build that returned an error before writing it.
BuildFailed == [NoLib EXCEPT !.variant = "failed"]

\* The plugins a backend is generated for: Cargo.toml exists (has_backend).
ShimKeys == {<<"GET", " ", "/x">>, <<"/x", " ", "/x">>, <<"GET">>, <<"/x">>}

ShimEntries ==
    {[key |-> k, value |-> v] : k \in ShimKeys, v \in {Str(h) : h \in HandlerNames} \cup {NotStr}}

ShimTables ==
    {t \in SeqsUpTo(ShimEntries, MaxRoutes) :
        \A i, j \in 1..Len(t) : i # j => t[i].key # t[j].key}

InitShim ==
    /\ NoCommand
    /\ \E c \in CargoKinds \ {"absent"}, pn \in {"unwind", "abort"}, r \in BOOLEAN :
       \E t \in (IF c = "table" THEN ShimTables ELSE {<<>>}) :
       \E d \in (IF r THEN [HandlerNames -> Decls] ELSE {[h \in HandlerNames |-> Undeclared]}) :
          plugin = [cargo |-> c, table |-> t, panic |-> pn, router |-> r, decl |-> d]
    /\ routes = NoRoutes
    /\ lib_rs = NoLib
    /\ call = NoCall
    /\ sys = NotRun
    /\ compile = NotRun

\* PluginBuilder::build after the routes were extracted: create_manifest()?,
\* then setup_backend_build with the has_routes computed by build.
setup_backend_build_run ==
    /\ routes.extracted
    /\ ~lib_rs.written
    /\ lib_rs # BuildFailed
    /\ lib_rs' = IF create_manifest(plugin) = "Err" THEN BuildFailed
                 ELSE setup_backend_build(plugin, has_routes(plugin))
    /\ UNCHANGED <<main, plugin, routes, call>>

NextShim ==
    \/ extract_routes_run
    \/ setup_backend_build_run

SpecShim == InitShim /\ [][NextShim]_vars

\* The handler names of the route table (its string values).
TableHandlers(table) == {table[i].value.text : i \in {j \in 1..Len(table) : table[j].value.is_str}}

\* Position of the first entry of the table whose value is the handler h.
FirstSeen(table, h) ==
    CHOOSE i \in 1..Len(table) :
        /\ table[i].value = Str(h)
        /\ \A j \in 1..(i - 1) : table[j].value # Str(h)

\* C17: the generated shim has exactly one exported wrapper per handler name
\* of the route table, in the order in which the names first appear in it.
C17_OneWrapperPerHandler ==
    lib_rs.written =>
        LET w == lib_rs.wrappers
            table == IF plugin.cargo = "table" THEN plugin.table ELSE <<>>
        IN  /\ {w[i].name : i \in 1..Len(w)} = TableHandlers(table)
            /\ \A i, j \in 1..Len(w) : i # j => w[i].name # w[j].name
            /\ \A i, j \in 1..Len(w) :
                  i < j => FirstSeen(table, w[i].name) < FirstSeen(table, w[j].name)

\* C17 witness: a table of three entries that names handle_b, then handle_a,
\* then handle_b again was generated into two wrappers.
C17_Witness ==
    /\ lib_rs.written
    /\ plugin.cargo = "table"
    /\ Len(plugin.table) = 3
    /\ plugin.table[1].value = Str("handle_b")
    /\ plugin.table[2].value = Str("handle_a")
    /\ plugin.table[3].value = Str("handle_b")
    /\ Len(lib_rs.wrappers) = 2
    /\ lib_rs.wrappers[1].name = "handle_b"

\* C18: when the extracted route list is empty the generated shim is the
\* minimal variant, with no wrapper and no bridge feature on the api
\* dependency; the bridge variant is generated only for a non-empty route list.
C18_MinimalWithoutRoutes ==
    lib_rs.written =>
        /\ (routes.list = <<>> =>
               lib_rs.variant = "minimal" /\ lib_rs.wrappers = <<>> /\ ~lib_rs.bridge)
        /\ (lib_rs.variant = "bridge" => routes.list # <<>>)

\* C18, with the [routes] table itself in place of the extracted list.
C18_MinimalWithoutTable ==
    lib_rs.written =>
        /\ (~has_routes(plugin) =>
               lib_rs.variant = "minimal" /\ lib_rs.wrappers = <<>> /\ ~lib_rs.bridge)
        /\ (lib_rs.variant = "bridge" => has_routes(plugin))

\* The handlers the extracted route list names that the copied router.rs
\* exports.
RoutedHandlers == {routes.list[i].handler : i \in 1..Len(routes.list)} \cap lib_rs.router_pub

\* C19: the wrapper of a handler of the route list that router.rs declares
\* calls it without the decoded request when the declared parameter list is
\* empty, and with the decoded request when it is not.
C19_RequestPassedIffDeclared ==
    lib_rs.written =>
        \A i \in 1..Len(lib_rs.wrappers) :
            LET h == lib_rs.wrappers[i].name
            IN  h \in RoutedHandlers =>
                   (lib_rs.wrappers[i].handler_call = "http_request"
                       <=> plugin.decl[h].params # <<>>)

\* C19, for the handlers router.rs declares with pub.
C19_PubHandlers ==
    lib_rs.written =>
        \A i \in 1..Len(lib_rs.wrappers) :
            LET h == lib_rs.wrappers[i].name
            IN  (h \in RoutedHandlers /\ plugin.decl[h].is_pub) =>
                   (lib_rs.wrappers[i].handler_call = "http_request"
                       <=> plugin.decl[h].params # <<>>)

\* ------------------------------------------------- a generated wrapper runs
\* cargo build --release --lib succeeds on rust_build only if every wrapper
\* names a function the copied router.rs exports and calls it with the
\* arguments it declares.
Compiles(p, lib) ==
    /\ lib.written
    /\ p.cargo = "table"
    /\ \A i \in 1..Len(lib.wrappers) :
          /\ lib.wrappers[i].name \in lib.router_pub
          /\ (lib.wrappers[i].handler_call = "http_request"
                 <=> p.decl[lib.wrappers[i].name].params # <<>>)

\* Option values of the FFI response.
None == <<>>

Some(x) == <<x>>

\* A body as it stands in the FFI response: a JSON value parsed from text, a
\* JSON string holding the text, or the base64 text of bytes.
JsonValue(text) == <<"value", text>>

JsonString(text) == <<"string", text>>

Base64(bytes) == <<"base64", bytes>>

\* FFIResponse::new(status): no header and no body yet.
FFIResponse_new(status) ==
    [status |-> status, headers |-> {}, body |-> None, body_base64 |-> None]

\* The response the wrapper returns from the Err arm of catch_unwind.
HandlerPanicked ==
    [status |-> 500, headers |-> {<<"Content-Type", <<"application/json">>>>},
     body |-> Some(JsonValue("{\"error\":\"Handler panicked\"}")), body_base64 |-> None]

\* The response returned when HttpRequest::from_ffi_json fails.
DecodeError == [FFIResponse_new(400) EXCEPT !.body = Some(JsonValue("{\"error\": e}"))]

HandlerStatuses == {200, 404}

\* The value of a content-type header is written as the sequence of its
\* pieces; no piece is the beginning of another, so the text starts with
\* "image/" exactly when its first piece is "image/".
MediaTokens == {"image/", "IMAGE/", "png", "application/octet-stream", ";q", "text/plain"}

MediaValues == {<<x>> : x \in MediaTokens} \cup {<<x, y>> : x \in MediaTokens, y \in MediaTokens}

\* The content-type header of the handler's response: none, or a value that
\* HeaderValue::to_str accepts (visible ASCII) or not.
ContentTypes ==
    {[present |-> FALSE, visible |-> TRUE, value |-> <<>>]}
    \cup {[present |-> TRUE, visible |-> vs, value |-> v] : vs \in BOOLEAN, v \in MediaValues}

\* The body bytes of the handler's response, with what String::from_utf8 and
\* serde_json::from_str make of them.
Bodies ==
    {[bytes |-> "{\"a\":1}", utf8 |-> TRUE, json |-> TRUE],
     [bytes |-> "null", utf8 |-> TRUE, json |-> TRUE],
     [bytes |-> "hello", utf8 |-> TRUE, json |-> FALSE],
     [bytes |-> "", utf8 |-> TRUE, json |-> FALSE],
     [bytes |-> "0xFF 0xFE", utf8 |-> FALSE, json |-> FALSE]}

Responses ==
    {[status |-> s, content_type |-> ct, body |-> bd] :
        s \in HandlerStatuses, ct \in ContentTypes, bd \in Bodies}

to_lowercase(v) == [i \in 1..Len(v) |-> IF v[i] = "IMAGE/" THEN "image/" ELSE v[i]]

starts_with(v, piece) == Len(v) >= 1 /\ v[1] = piece

\* The headers map: the headers of the response whose value to_str accepts.
headers_of(response) ==
    IF response.content_type.present /\ response.content_type.visible
    THEN {<<"content-type", response.content_type.value>>}
    ELSE {}

\* headers.get("content-type").or_else(..).cloned().unwrap_or_default().to_lowercase()
content_type(headers) ==
    IF \E h \in headers : h[1] \in {"content-type", "Content-Type"}
    THEN to_lowercase((CHOOSE h \in headers : h[1] \in {"content-type", "Content-Type"})[2])
    ELSE <<>>

is_binary_ImageOnly(ct) == starts_with(ct, "image/")

is_binary(ct) == starts_with(ct, "image/") \/ starts_with(ct, "application/octet-stream")

\* The FFI response built from the handler's response.
ffi_response_AlwaysBody(response) ==
    [FFIResponse_new(response.status) EXCEPT
        !.headers = headers_of(response),
        !.body = Some(JsonString(response.body.bytes)),
        !.body_base64 = IF is_binary(content_type(headers_of(response)))
                        THEN Some(Base64(response.body.bytes)) ELSE None]

ffi_response(response) ==
    LET headers == headers_of(response)
        body_bytes == response.body.bytes
        new == [FFIResponse_new(response.status) EXCEPT !.headers = headers]
    IN  IF is_binary(content_type(headers))
        THEN [new EXCEPT !.body_base64 = Some(Base64(body_bytes))]
        ELSE IF response.body.utf8
        THEN IF response.body.json
             THEN [new EXCEPT !.body = Some(JsonValue(body_bytes))]
             ELSE [new EXCEPT !.body = Some(JsonString(body_bytes))]
        ELSE [new EXCEPT !.body_base64 = Some(Base64(body_bytes))]

InitWrapper ==
    /\ NoCommand
    /\ \E c \in CargoKinds \ {"absent"}, pn \in {"unwind", "abort"}, r \in BOOLEAN :
       \E t \in (IF c = "table" THEN {s \in ShimTables : Len(s) <= 1} ELSE {<<>>}) :
       \E d \in (IF r THEN [HandlerNames -> Decls] ELSE {[h \in HandlerNames |-> Undeclared]}) :
          plugin = [cargo |-> c, table |-> t, panic |-> pn, router |-> r, decl |-> d]
    /\ routes = NoRoutes
    /\ lib_rs = NoLib
    /\ call = NoCall
    /\ sys = NotRun
    /\ compile = NotRun

\* The host calls one exported wrapper of the compiled library with the bytes
\* of a request, which from_ffi_json can decode or not.
wrapper_enter ==
    /\ Compiles(plugin, lib_rs)
    /\ call.pc = "none"
    /\ \E i \in 1..Len(lib_rs.wrappers), d \in BOOLEAN :
          call' = [NoCall EXCEPT !.pc = "Decoding", !.wrapper = i, !.decodable = d]
    /\ UNCHANGED <<main, plugin, routes, lib_rs>>

\* Inside catch_unwind: HttpRequest::from_ffi_json; on Err the closure returns
\* the 400 response.
from_ffi_json_AlwaysOk(c) == [c EXCEPT !.pc = "Invoking"]

from_ffi_json(c) ==
    IF c.decodable
    THEN [c EXCEPT !.pc = "Invoking"]
    ELSE [c EXCEPT !.pc = "returned", !.ret = DecodeError]

wrapper_decode ==
    /\ call.pc = "Decoding"
    /\ call' = from_ffi_json(call)
    /\ UNCHANGED <<main, plugin, routes, lib_rs>>

\* Inside catch_unwind: the runtime is built and the handler is run to
\* completion with handler_call.
wrapper_invoke ==
    /\ call.pc = "Invoking"
    /\ \E r \in Responses :
          call' = [call EXCEPT !.pc = "Encoding",
                               !.invoked = TRUE,
                               !.passed = (lib_rs.wrappers[call.wrapper].handler_call = "http_request"),
                               !.response = r]
    /\ UNCHANGED <<main, plugin, routes, lib_rs>>

\* Inside catch_unwind: the handler's response is turned into the FFI
\* response; the closure returns its pointer, which the wrapper returns.
wrapper_encode ==
    /\ call.pc = "Encoding"
    /\ call' = [call EXCEPT !.pc = "returned",
                            !.ret = ffi_response(call.response)]
    /\ UNCHANGED <<main, plugin, routes, lib_rs>>

\* What a panic inside the closure leads to: with the unwinding strategy
\* catch_unwind returns Err and the wrapper returns the fixed response; with
\* panic = "abort" in the profile of rust_build/Cargo.toml the process aborts.
Unwound(strategy) == strategy = "unwind"

wrapper_panic ==
    /\ call.pc \in {"Decoding", "Invoking", "Encoding"}
    /\ call' = IF Unwound(lib_rs.panic)
               THEN [call EXCEPT !.pc = "returned", !.panicked = call.pc, !.ret = HandlerPanicked]
               ELSE [call EXCEPT !.pc = "aborted", !.panicked = call.pc]
    /\ UNCHANGED <<main, plugin, routes, lib_rs>>

NextWrapper ==
    \/ extract_routes_run
    \/ setup_backend_build_run
    \/ wrapper_enter
    \/ wrapper_decode
    \/ wrapper_invoke
    \/ wrapper_encode
    \/ wrapper_panic

SpecWrapper == InitWrapper /\ [][NextWrapper]_vars

\* C20: a panic while a generated wrapper is decoding, invoking or encoding
\* does not leave the wrapper: the call returns the fixed 500 response with
\* the JSON error field.
C20_PanicContained ==
    call.panicked # "none" => (call.pc = "returned" /\ call.ret = HandlerPanicked)

\* C20, for a library built with the unwinding panic strategy.
C20_PanicContainedWhenUnwinding ==
    (call.panicked # "none" /\ lib_rs.panic = "unwind")
        => (call.pc = "returned" /\ call.ret = HandlerPanicked)

\* A wrapper built with the unwinding strategy returned the fixed response
\* after a panic of the handler.
C20_UnwindReached ==
    call.panicked = "Invoking" /\ lib_rs.panic = "unwind" /\ call.ret = HandlerPanicked

\* C21: when the request bytes do not decode, the wrapper returns the 400
\* response and the handler is not invoked; the handler is invoked only after
\* a successful decode.
C21_DecodeFailureSkipsHandler ==
    /\ call.invoked => call.decodable
    /\ (call.pc = "returned" /\ ~call.decodable /\ call.panicked = "none")
          => (call.ret = DecodeError /\ ~call.invoked)

\* C21 witness: a call with undecodable bytes returned the 400 response.
C21_Witness ==
    call.pc = "returned" /\ ~call.decodable /\ call.ret = DecodeError /\ ~call.invoked

\* The handler's response was encoded and returned.
Encoded == call.pc = "returned" /\ call.invoked /\ call.panicked = "none"

\* The content type the rules look at: the header's value in lower case, if
\* there is one the header map takes.
SeenContentType ==
    IF call.response.content_type.present /\ call.response.content_type.visible
    THEN to_lowercase(call.response.content_type.value)
    ELSE <<>>

\* The body of the envelope is exactly form and bodyBase64 is absent, or the
\* other way round.
BodyIs(form) == call.ret.body = Some(form) /\ call.ret.body_base64 = None

Base64Is(form) == call.ret.body_base64 = Some(form) /\ call.ret.body = None

\* The rules after the first one, in order.
TextRules ==
    LET bd == call.response.body
    IN  IF bd.utf8 /\ bd.json THEN BodyIs(JsonValue(bd.bytes))
        ELSE IF bd.utf8 THEN BodyIs(JsonString(bd.bytes))
        ELSE Base64Is(Base64(bd.bytes))

\* C22: a content type starting with image/ or equal to
\* application/octet-stream gives a base64 body; otherwise a UTF-8 body that
\* parses as JSON is embedded as the parsed value; otherwise a UTF-8 body is
\* embedded as a JSON string; otherwise the body is base64.
C22_EncodingAsStated ==
    Encoded =>
        IF starts_with(SeenContentType, "image/")
              \/ SeenContentType = <<"application/octet-stream">>
        THEN Base64Is(Base64(call.response.body.bytes))
        ELSE TextRules

\* C22 amended: the first rule applies to a content type starting with
\* image/ or starting with application/octet-stream.
C22_EncodingAmended ==
    Encoded =>
        IF \E first \in {"image/", "application/octet-stream"} :
              /\ SeenContentType # <<>>
              /\ Head(SeenContentType) = first
        THEN Base64Is(Base64(call.response.body.bytes))
        ELSE TextRules

\* C22 witness: a response with application/octet-stream followed by a
\* parameter and a JSON body was returned with a base64 body.
C22_Witness ==
    /\ Encoded
    /\ call.response.content_type.value = <<"application/octet-stream", ";q">>
    /\ call.response.content_type.visible
    /\ call.response.body.json
    /\ call.ret.body_base64 # None

\* C23: every envelope a wrapper returns carries a status, headers and
\* exactly one of body and bodyBase64.
C23_ExactlyOneBody ==
    call.pc = "returned" =>
        /\ call.ret.status \in {400, 500} \cup HandlerStatuses
        /\ "headers" \in DOMAIN call.ret
        /\ (call.ret.body = None) # (call.ret.body_base64 = None)

\* C23 witness: a response with content type image/png was returned with
\* bodyBase64 set and body absent.
C23_Witness ==
    /\ Encoded
    /\ call.response.content_type.value = <<"image/", "png">>
    /\ call.response.content_type.visible
    /\ call.ret.body_base64 # None
    /\ call.ret.body = None

\* --------------------------------------------- kill_running_app_processes
\* Names of processes and of executable files.  to_lowercase and contains on
\* them are given by what they yield on these texts.
ProcNames == {"webarcade", "WebArcade.exe", "other"}

Lower(s) ==
    CASE s = "WebArcade.exe" -> "webarcade.exe"
      [] s = "WebArcade" -> "webarcade"
      [] OTHER -> s

\* s.contains("webarcade")
ContainsWebarcade(s) == s \in {"webarcade", "webarcade.exe"}

\* app/Cargo.toml of the host application: missing, unreadable, not TOML, or
\* with [package] name = "WebArcade".
AppCargoKinds == {"absent", "unreadable", "unparsable", "named"}

app_name(cargo) == IF cargo = "named" THEN "WebArcade" ELSE "webarcade"

exe_name_no_ext(app) == Lower(app)

\* format!("{}.exe", app_name.to_lowercase())
exe_name(app) == IF Lower(app) = "webarcade" THEN "webarcade.exe" ELSE "other.exe"

\* Paths are sequences of components.
RepoRoots == {<<"home", "webarcade">>, <<"home", "proj">>}

app_dir(repo_root) == repo_root \o <<"app">>

target_release_dir(repo_root) == app_dir(repo_root) \o <<"target", "release">>

target_debug_dir(repo_root) == app_dir(repo_root) \o <<"target", "debug">>

\* Path::starts_with: base is a prefix of path, component by component.
path_starts_with(path, base) ==
    Len(base) <= Len(path) /\ SubSeq(path, 1, Len(base)) = base

file_name(path) == path[Len(path)]

\* path_str.contains(&app_name.to_lowercase()) for the paths of the model,
\* in which the name can only stand inside one component.
path_contains_app(path) == \E k \in 1..Len(path) : ContainsWebarcade(Lower(path[k]))

name_matches(name, app) == Lower(name) \in {exe_name(app), exe_name_no_ext(app)}

\* should_kill of the first loop, for one process.
should_kill(process, repo_root, app) ==
    \/ name_matches(process.name, app)
    \/ /\ process.exe # <<>>
       /\ path_contains_app(process.exe)
       /\ \/ path_starts_with(process.exe, target_release_dir(repo_root))
          \/ path_starts_with(process.exe, target_debug_dir(repo_root))
          \/ name_matches(file_name(process.exe), app)

\* The processes of the system: a name and, where known, the path of the
\* executable (<<>>: process.exe() is None).
ExeDirs(repo_root) ==
    {target_release_dir(repo_root), target_debug_dir(repo_root) \o <<"deps">>, <<"usr", "bin">>}

Processes(repo_root) ==
    {[name |-> n, exe |-> e] :
        n \in ProcNames,
        e \in {<<>>} \cup {d \o <<f>> : d \in ExeDirs(repo_root), f \in ProcNames}}

ProcessTables(repo_root) ==
    {<<x>> : x \in Processes(repo_root)}
    \cup {<<x, y>> : x \in Processes(repo_root), y \in Processes(repo_root)}

\* The result of the guard once its rounds are over, whatever kill() returned.
guard_result_FailOnKill(failed) == IF failed = {} THEN "Ok" ELSE "Err"

guard_result(failed) == "Ok"

\* Nothing else of the tool runs while the guard is followed.
Quiet ==
    /\ NoCommand
    /\ plugin = NoPlugin
    /\ routes = NotRun
    /\ lib_rs = NotRun
    /\ call = NotRun
    /\ compile = NotRun

rest == <<src, dist, cache, registry, pc, inv, cur, b, batch, lastOk, edited, ncmd, nedit,
          walks, digests, plugin, routes, lib_rs, call, compile>>

InitGuard ==
    /\ Quiet
    /\ \E r \in RepoRoots, c \in AppCargoKinds : \E ps \in ProcessTables(r) :
          sys = [pc |-> "called", repo_root |-> r, cargo |-> c, processes |-> ps,
                 alive |-> DOMAIN ps, signalled |-> {}, killed |-> {}, failed |-> {},
                 slept |-> <<>>, again |-> {}, result |-> "none", caller |-> "waiting"]

\* kill_running_app_processes up to the end of the first loop: the name of
\* the application is read, every process is looked at, and kill() is called
\* on those with should_kill; it returns true for some of them.
kill_first_round ==
    /\ sys.pc = "called"
    /\ IF sys.cargo = "unreadable"
       THEN sys' = [sys EXCEPT !.pc = "returned", !.result = "Err"]
       ELSE LET app == app_name(sys.cargo)
                hit == {k \in DOMAIN sys.processes :
                           should_kill(sys.processes[k], sys.repo_root, app)}
            IN  \E delivered \in SUBSET hit :
                   sys' = [sys EXCEPT
                       !.signalled = hit,
                       !.killed = delivered,
                       !.failed = hit \ delivered,
                       !.pc = IF delivered = {} THEN "returned" ELSE "sleeping",
                       !.result = IF delivered = {} THEN guard_result(hit) ELSE "none"]
    /\ UNCHANGED rest

\* sleep(1000 ms): the processes that got the signal end, or are still there
\* when the table is refreshed.
first_grace_interval ==
    /\ sys.pc = "sleeping"
    /\ \E gone \in SUBSET sys.killed :
          sys' = [sys EXCEPT !.pc = "refreshed", !.alive = @ \ gone, !.slept = <<1000>>]
    /\ UNCHANGED rest

\* The second loop: kill() on the processes still_running, then sleep(500 ms).
kill_second_round ==
    /\ sys.pc = "refreshed"
    /\ LET app == app_name(sys.cargo)
           still_running == {k \in sys.alive : name_matches(sys.processes[k].name, app)}
       IN  \E delivered \in SUBSET still_running :
              sys' = [sys EXCEPT
                  !.again = still_running,
                  !.failed = @ \cup (still_running \ delivered),
                  !.slept = IF still_running # {} THEN Append(@, 500) ELSE @,
                  !.pc = "returned",
                  !.result = guard_result(sys.failed \cup (still_running \ delivered))]
    /\ UNCHANGED rest

\* build_app, package_app: kill_running_app_processes()?
caller_resumes ==
    /\ sys.pc = "returned"
    /\ sys' = [sys EXCEPT !.pc = "resumed",
                          !.caller = IF sys.result = "Ok" THEN "continues" ELSE "aborted"]
    /\ UNCHANGED rest

NextGuard ==
    \/ kill_first_round
    \/ first_grace_interval
    \/ kill_second_round
    \/ caller_resumes

SpecGuard == InitGuard /\ [][NextGuard]_vars

\* The candidates: the name of the process or of its executable file is the
\* binary name with or without .exe, whatever the case of the letters, or the
\* executable lies under app/target/release or app/target/debug and its file
\* name is that name.
Candidate(process) ==
    LET app == app_name(sys.cargo)
    IN  \/ name_matches(process.name, app)
        \/ process.exe # <<>> /\ name_matches(file_name(process.exe), app)

Candidates == {k \in DOMAIN sys.processes : Candidate(sys.processes[k])}

Enumerated == sys.pc # "called" /\ sys.cargo # "unreadable"

\* C24: the guard signals a process if and only if it is a candidate, and no
\* other process is ever signalled.
C24_OnlyCandidatesSignalled ==
    Enumerated => (sys.signalled = Candidates /\ sys.again \subseteq Candidates)

\* C24, for a repository whose path does not hold the name of the binary.
C24_OutsideNamedRepository ==
    (Enumerated /\ sys.repo_root = <<"home", "proj">>)
        => (sys.signalled = Candidates /\ sys.again \subseteq Candidates)

\* C25: when signals were sent in the first round, the guard waits, looks at
\* the processes again and signals every candidate still alive, then waits
\* the shorter interval.
C25_SurvivorsSignalledAgain ==
    (sys.pc \in {"returned", "resumed"} /\ Enumerated /\ sys.signalled # {}) =>
        /\ Len(sys.slept) >= 1
        /\ (Candidates \cap sys.alive) \subseteq sys.again
        /\ (Candidates \cap sys.alive # {} => sys.slept = <<1000, 500>>)

\* C25, for survivors matched by the name of the process after a first round
\* in which some kill() returned true.
C25_NamedSurvivors ==
    (sys.pc \in {"returned", "resumed"} /\ Enumerated /\ sys.killed # {}) =>
        LET named == {k \in sys.alive : name_matches(sys.processes[k].name, app_name(sys.cargo))}
        IN  /\ named \subseteq sys.again
            /\ (named # {} => sys.slept = <<1000, 500>>)

\* C26: a kill() that returned false, in either round, does not make the
\* guard return an error nor its caller stop.
C26_KillFailureNotFatal ==
    (sys.pc \in {"returned", "resumed"} /\ sys.failed # {}) =>
        (sys.result = "Ok" /\ sys.caller # "aborted")

\* C26 witness: after two rounds in which kill() returned false for a process
\* that is still alive, the guard returned Ok and the caller went on.
C26_Witness ==
    /\ sys.pc = "resumed"
    /\ sys.caller = "continues"
    /\ sys.slept = <<1000, 500>>
    /\ sys.failed \cap sys.again \cap sys.alive # {}

\* ------------------------------------- compile_backend and the installers
MaxLines == 2

OSes == {"windows", "macos", "linux"}

PluginIds == {"demo", "my-plugin"}

\* A line of cargo's stderr, as the pieces of its text.
StderrLines ==
    {<<"   ", "Compiling ", "serde v1.0">>,
     <<"   ", "Compiling ", "error-chain", " v0.12">>,
     <<"   ", "Building", " [=> ", "]", " ", "1", "/", "2", ":", " serde">>,
     <<"   ", "Building", " [=> ", "]", " ", "3", "/", "3", ":", " serde">>,
     <<"   ", "Building", " [=> ", "]", " ", "2", "/", "1", ":", " serde">>,
     <<"error[E0308]", ": mismatched types">>,
     <<"Error", ": linking failed">>,
     <<"warning: unused variable">>,
     <<"error", ": couldn't read src", "/", "Building", ".rs">>}

\* line.contains(piece)
line_contains(line, piece) ==
    \E i \in 1..Len(line) :
        \/ line[i] = piece
        \/ (piece = "error" /\ line[i] \in {"error-chain", "error[E0308]"})

\* line.trim_start().starts_with("Compiling ")
is_compiling(line) ==
    \E i \in 1..Len(line) :
        /\ line[i] = "Compiling "
        /\ \A j \in 1..(i - 1) : line[j] = "   "

\* The loop of compile_backend over the lines of stderr: error_output, one
\* element per captured line.
RECURSIVE error_output(_)
error_output(stderr) ==
    IF stderr = <<>> THEN <<>>
    ELSE LET line == Head(stderr)
         IN  (IF is_compiling(line) THEN <<>>
              ELSE IF line_contains(line, "Building") /\ line_contains(line, "/") THEN <<>>
              ELSE IF line_contains(line, "error") \/ line_contains(line, "Error") THEN <<line>>
              ELSE <<>>) \o error_output(Tail(stderr))

\* str::parse::<usize> of one piece of a line.
parse_usize(piece) ==
    IF Len(piece) = 1 /\ piece[1] \in {"0", "1", "2", "3"}
    THEN Some(CASE piece[1] = "0" -> 0 [] piece[1] = "1" -> 1
                [] piece[1] = "2" -> 2 [] piece[1] = "3" -> 3)
    ELSE None

\* compile_backend on a line holding "Building" and "/": the text between the
\* first ] and the next, up to its first ":", trimmed and split at "/"; two
\* numbers N/M are the count and the total.
building_progress(line) ==
    LET i == FirstOf(line, {"]"})
        after == SubSeq(line, i + 1, Len(line))
        j == FirstOf(after, {"]"})
        progress_part == IF j = 0 THEN after ELSE SubSeq(after, 1, j - 1)
        k == FirstOf(progress_part, {":"})
        part0 == IF k = 0 THEN progress_part ELSE SubSeq(progress_part, 1, k - 1)
        text == {n \in 1..Len(part0) : part0[n] \notin {" ", "   "}}
        trimmed == IF text = {} THEN <<>>
                   ELSE SubSeq(part0, CHOOSE n \in text : \A m \in text : n <= m,
                                      CHOOSE n \in text : \A m \in text : n >= m)
        s == FirstOf(trimmed, {"/"})
        left == SubSeq(trimmed, 1, s - 1)
        right == SubSeq(trimmed, s + 1, Len(trimmed))
    IN  IF i = 0 \/ s = 0 \/ FirstOf(right, {"/"}) # 0 THEN None
        ELSE IF parse_usize(left) = None \/ parse_usize(right) = None THEN None
        ELSE Some([current |-> parse_usize(left)[1], total |-> parse_usize(right)[1]])

\* The loop of compile_backend over the lines of stderr: the calls of
\* update_cargo_progress, in order, from compiled_count and total_crates.
RECURSIVE cargo_progress(_, _, _)
cargo_progress(stderr, compiled_count, total_crates) ==
    IF stderr = <<>> THEN <<>>
    ELSE LET line == Head(stderr)
         IN  IF is_compiling(line)
             THEN LET count == compiled_count + 1
                      estimate == IF total_crates = 0 THEN 150 ELSE total_crates
                      total == IF count > estimate THEN count + 10 ELSE estimate
                  IN  <<[current |-> count, total |-> total]>>
                          \o cargo_progress(Tail(stderr), count, total)
             ELSE IF line_contains(line, "Building") /\ line_contains(line, "/")
                     /\ building_progress(line) # None
             THEN LET u == building_progress(line)[1]
                  IN  <<u>> \o cargo_progress(Tail(stderr), u.current, u.total)
             ELSE cargo_progress(Tail(stderr), compiled_count, total_crates)

\* BuildProgress::render, the compile bar: cargo_filled of cargo_bar_width 30.
cargo_filled(current, total) == IF total > 0 THEN (current * 30) \div total ELSE 0

\* compile_backend, !status.success(): the text of the error it returns.
cargo_build_failed_NoGeneric(captured) == <<<<"Cargo build failed:">>>> \o captured

cargo_build_failed(captured) ==
    <<<<"Cargo build failed:">>>>
        \o (IF captured = <<>> THEN <<<<"Cargo build failed (unknown error)">>>> ELSE captured)

\* The cdylib cargo leaves in target/release: named after the package of
\* rust_build/Cargo.toml, every - of the name written _.
cargo_cdylib(os, package) ==
    LET crate == IF package = "my-plugin" THEN "my_plugin" ELSE package
    IN  IF os = "windows" THEN <<crate, ".dll">>
        ELSE IF os = "macos" THEN <<"lib", crate, ".dylib">>
        ELSE <<"lib", crate, ".so">>

\* A file: the directory it is in and its name.
File(dir, name) == [dir |-> dir, name |-> name]

\* copy_compiled_binary: src_path and dest_path.
copy_compiled_binary_src(plugin_id, os) ==
    File("rust_build/target/release",
         IF os = "windows" THEN <<plugin_id, ".dll">>
         ELSE IF os = "macos" THEN <<"lib", plugin_id, ".dylib">>
         ELSE <<"lib", plugin_id, ".so">>)

copy_compiled_binary_dest(plugin_id, os) ==
    File("build_dir", copy_compiled_binary_src(plugin_id, os).name)

\* install_dll: src_path and dest_path.
install_dll_src(plugin_id, os) ==
    File("build_dir",
         IF os = "windows" THEN <<plugin_id, ".dll">>
         ELSE IF os = "macos" THEN <<"lib", plugin_id, ".dylib">>
         ELSE <<"lib", plugin_id, ".so">>)

install_dll_dest_AlwaysDll(plugin_id, os) == File("dist_plugins_dir", <<plugin_id, ".dll">>)

install_dll_dest(plugin_id, os) ==
    File("dist_plugins_dir", install_dll_src(plugin_id, os).name)

\* PluginBuilder::build, frontend-only: dest_plugin_js.
dest_plugin_js(plugin_id) == File("dist_plugins_dir", <<plugin_id, ".js">>)

\* plugin_needs_rebuild: output_path.
output_path(plugin_id, has_backend, os) ==
    File("dist_plugins_dir",
         IF has_backend
         THEN (IF os = "windows" THEN <<plugin_id, ".dll">>
               ELSE IF os = "macos" THEN <<"lib", plugin_id, ".dylib">>
               ELSE <<"lib", plugin_id, ".so">>)
         ELSE <<plugin_id, ".js">>)

\* What cargo does once spawned: the lines it writes to stderr and its exit
\* status.
CargoRuns == {[stderr |-> s, success |-> ok] : s \in SeqsUpTo(StderrLines, MaxLines), ok \in BOOLEAN}

\* What is left of the tool while one plugin is compiled and installed.
outside == <<src, dist, cache, registry, pc, inv, cur, b, batch, lastOk, edited, ncmd, nedit,
             walks, digests, plugin, routes, lib_rs, call, sys>>

\* PluginBuilder::build has cleaned build_dir, bundled the frontend and, for
\* a backend, written rust_build; app/plugins is empty.
InitCompile ==
    /\ NoCommand
    /\ plugin = NoPlugin
    /\ routes = NotRun
    /\ lib_rs = NotRun
    /\ call = NotRun
    /\ sys = NotRun
    /\ \E id \in PluginIds, os \in OSes, hb \in BOOLEAN, js \in BOOLEAN :
       \E pk \in (IF hb THEN {id, "demo_core"} ELSE {id}) :
       \E run \in (IF hb THEN CargoRuns ELSE {[stderr |-> <<>>, success |-> TRUE]}) :
          compile = [pc |-> "prepared", plugin_id |-> id, os |-> os, has_backend |-> hb,
                     package |-> pk, run |-> run, captured |-> <<>>, updates |-> <<>>,
                     made |-> {},
                     files |-> IF js THEN {File("build_dir", <<"plugin", ".js">>)} ELSE {},
                     before |-> {}, read |-> {}, wrote |-> {}, checked |-> {},
                     output_exists |-> FALSE, rebuilt |-> FALSE,
                     result |-> "none", reason |-> <<>>]

Installed == {f \in compile.files : f.dir = "dist_plugins_dir"}

\* compile_backend: cargo runs to its end, its stderr is read, its exit
\* status is looked at and copy_compiled_binary is called.
compile_backend_run ==
    /\ compile.pc = "prepared"
    /\ compile.has_backend
    /\ LET captured == error_output(compile.run.stderr)
           updates == cargo_progress(compile.run.stderr, 0, 0)
           made == IF compile.run.success
                   THEN {File("rust_build/target/release",
                              cargo_cdylib(compile.os, compile.package))}
                   ELSE {}
           src_path == copy_compiled_binary_src(compile.plugin_id, compile.os)
       IN  IF ~compile.run.success
           THEN compile' = [compile EXCEPT !.pc = "returned", !.captured = captured,
                                           !.updates = updates,
                                           !.made = made, !.result = "Err",
                                           !.reason = cargo_build_failed(captured)]
           ELSE IF src_path \in made
           THEN compile' = [compile EXCEPT
                    !.pc = "compiled", !.captured = captured, !.updates = updates,
                    !.made = made,
                    !.read = {src_path},
                    !.files = @ \cup made
                                \cup {copy_compiled_binary_dest(compile.plugin_id, compile.os)}]
           ELSE compile' = [compile EXCEPT
                    !.pc = "returned", !.captured = captured, !.updates = updates,
                    !.made = made,
                    !.files = @ \cup made,
                    !.result = "Err",
                    !.reason = <<<<"Compiled library not found">>, src_path.name>>]
    /\ UNCHANGED outside

\* PluginBuilder::build after compile_backend: install_dll, cleanup_build_dir.
install_dll_run ==
    /\ compile.pc = "compiled"
    /\ LET src_path == install_dll_src(compile.plugin_id, compile.os)
           dest_path == install_dll_dest(compile.plugin_id, compile.os)
       IN  IF src_path \in compile.files
           THEN compile' = [compile EXCEPT
                    !.pc = "returned", !.result = "Ok", !.wrote = {dest_path},
                    !.files = {f \in @ : f.dir = "dist_plugins_dir"} \cup {dest_path}]
           ELSE compile' = [compile EXCEPT
                    !.pc = "returned", !.result = "Err",
                    !.reason = <<<<"Compiled library not found">>, src_path.name>>]
    /\ UNCHANGED outside

\* PluginBuilder::build of a frontend-only plugin: plugin.js is copied when
\* the bundler left one, then cleanup_build_dir.
install_js_run ==
    /\ compile.pc = "prepared"
    /\ ~compile.has_backend
    /\ LET dest == dest_plugin_js(compile.plugin_id)
           bundled == File("build_dir", <<"plugin", ".js">>) \in compile.files
       IN  compile' = [compile EXCEPT
               !.pc = "returned", !.result = "Ok",
               !.wrote = IF bundled THEN {dest} ELSE {},
               !.files = {f \in @ : f.dir = "dist_plugins_dir"}
                            \cup (IF bundled THEN {dest} ELSE {})]
    /\ UNCHANGED outside

\* The next command asks plugin_needs_rebuild about the plugin: output_path
\* and output_exists.
plugin_needs_rebuild_run ==
    /\ compile.pc = "returned"
    /\ LET path == output_path(compile.plugin_id, compile.has_backend, compile.os)
       IN  compile' = [compile EXCEPT !.pc = "checked", !.checked = {path},
                                      !.output_exists = path \in compile.files]
    /\ UNCHANGED outside

\* The plugin is built again: build_dir is removed and made again, the
\* frontend bundled, rust_build written, and cargo writes the same lines and
\* exits as it will.
build_again ==
    /\ compile.pc = "checked"
    /\ \E js \in BOOLEAN :
       \E ok \in (IF compile.has_backend THEN BOOLEAN ELSE {TRUE}) :
          compile' = [compile EXCEPT
              !.pc = "prepared", !.run = [@ EXCEPT !.success = ok], !.captured = <<>>,
              !.updates = <<>>, !.made = {},
              !.files = Installed
                           \cup (IF js THEN {File("build_dir", <<"plugin", ".js">>)} ELSE {}),
              !.before = Installed, !.read = {}, !.wrote = {}, !.checked = {},
              !.output_exists = FALSE, !.rebuilt = TRUE, !.result = "none", !.reason = <<>>]
    /\ UNCHANGED outside

NextCompile ==
    \/ compile_backend_run
    \/ install_dll_run
    \/ install_js_run
    \/ plugin_needs_rebuild_run
    \/ build_again

SpecCompile == InitCompile /\ [][NextCompile]_vars

\* The library the build of a backend plugin is to install, by the naming
\* convention of the target OS.
ExpectedLibrary ==
    IF compile.os = "windows" THEN <<compile.plugin_id, ".dll">>
    ELSE IF compile.os = "macos" THEN <<"lib", compile.plugin_id, ".dylib">>
    ELSE <<"lib", compile.plugin_id, ".so">>

LibraryAbsent ==
    File("rust_build/target/release", ExpectedLibrary) \notin compile.made

CompileOver == compile.has_backend /\ compile.pc \in {"compiled", "returned", "checked"}

\* C27: when cargo exits with a non-zero status the build fails and its reason
\* is the captured error lines, or the generic message when none was
\* captured; when cargo exits with zero and the expected library is not in
\* target/release the build fails too; in both cases nothing is installed.
C27_CompileFailureFailsBuild ==
    /\ (CompileOver /\ ~compile.run.success) =>
          /\ compile.result = "Err"
          /\ compile.reason =
                <<<<"Cargo build failed:">>>>
                    \o (IF compile.captured = <<>>
                        THEN <<<<"Cargo build failed (unknown error)">>>>
                        ELSE compile.captured)
          /\ compile.wrote = {}
          /\ Installed = compile.before
    /\ (CompileOver /\ compile.run.success /\ LibraryAbsent) =>
          /\ compile.result = "Err"
          /\ compile.wrote = {}
          /\ Installed = compile.before

\* C27 witness: a second build of a plugin whose library is installed failed
\* with one captured error line out of two lines of stderr, and the library
\* is still the only file installed.
C27_Witness ==
    /\ compile.pc = "returned"
    /\ compile.rebuilt
    /\ ~compile.run.success
    /\ Len(compile.run.stderr) = 2
    /\ Len(compile.captured) = 1
    /\ compile.result = "Err"
    /\ Installed # {}

\* ------------------------------------------- rust_build generated twice
\* What of a plugin the generated sources are said to be made from: the
\* route table and the handler source (the plugin id, the frontend text and
\* the manifest text are the same for the two plugins followed here).
StatedInputs(p) ==
    [table |-> IF p.cargo = "table" THEN p.table ELSE <<>>, router |-> p.router, decl |-> p.decl]

\* Two plugin directories that differ at most in the rest of Cargo.toml.
InitTwice ==
    /\ NoCommand
    /\ \E c \in {"unparsable", "no_routes", "table"}, pn \in {"unwind", "abort"}, r \in BOOLEAN :
       \E t \in (IF c = "table" THEN ShimTables ELSE {<<>>}) :
       \E d \in (IF r THEN [HandlerNames -> Decls] ELSE {[h \in HandlerNames |-> Undeclared]}) :
       \E c2 \in (IF c = "table" THEN {"table"} ELSE {"unparsable", "no_routes"}) :
       \E pn2 \in {"unwind", "abort"} :
          plugin = <<[cargo |-> c, table |-> t, panic |-> pn, router |-> r, decl |-> d],
                     [cargo |-> c2, table |-> t, panic |-> pn2, router |-> r, decl |-> d]>>
    /\ routes = NoRoutes
    /\ lib_rs = <<>>
    /\ call = NoCall
    /\ sys = NotRun
    /\ compile = NotRun

\* PluginBuilder::build_backend on each of the two: setup_backend_build with
\* the has_routes computed by build.
setup_backend_build_twice ==
    /\ lib_rs = <<>>
    /\ lib_rs' = <<setup_backend_build(plugin[1], has_routes(plugin[1])),
                   setup_backend_build(plugin[2], has_routes(plugin[2]))>>
    /\ UNCHANGED <<main, plugin, routes, call>>

NextTwice == setup_backend_build_twice

SpecTwice == InitTwice /\ [][NextTwice]_vars

\* lib.rs of a generated rust_build, and its Cargo.toml.
LibRsOf(out) == [variant |-> out.variant, wrappers |-> out.wrappers]

CargoTomlOf(out) == [bridge |-> out.bridge, panic |-> out.panic]

InstalledAndChecked == compile.pc = "checked" /\ compile.wrote # {}

\* C29: the path plugin_needs_rebuild checks, the path copy_compiled_binary
\* reads and the path the installer writes are one path, and the only file
\* installed for the plugin after any number of builds.
C29_OnePath ==
    InstalledAndChecked =>
        /\ compile.checked = compile.wrote
        /\ (compile.has_backend => compile.read = compile.wrote)
        /\ Installed = compile.wrote

\* C29 amended: the path plugin_needs_rebuild checks and the path the
\* installer writes are one path, the file copy_compiled_binary reads is the
\* file of that name in rust_build/target/release, and the path is the only
\* file installed for the plugin after any number of builds.
C29_OneFileName ==
    InstalledAndChecked =>
        /\ compile.checked = compile.wrote
        /\ compile.output_exists
        /\ (compile.has_backend =>
               \E r \in compile.read : \E w \in compile.wrote :
                  /\ compile.read = {r}
                  /\ r.name = w.name
                  /\ r.dir = "rust_build/target/release")
        /\ Installed = compile.wrote

\* C29 witness: a backend plugin was built twice on linux, its library
\* installed both times, and plugin_needs_rebuild has looked for it.
C29_Witness ==
    /\ InstalledAndChecked
    /\ compile.rebuilt
    /\ compile.has_backend
    /\ compile.os = "linux"
    /\ compile.before # {}

\* The generation of rust_build is over, one way or the other.
SetupOver == routes.extracted /\ (lib_rs.written \/ lib_rs = BuildFailed)

\* C30: the build of a backend plugin whose Cargo.toml has no [routes] table,
\* or cannot be parsed, goes on to generate rust_build with an empty route
\* list and no handler wrapper.
C30_NoRouteTableNotFatal ==
    (SetupOver /\ plugin.cargo # "table") =>
        /\ lib_rs.written
        /\ routes.list = <<>>
        /\ lib_rs.wrappers = <<>>

\* C30, for a Cargo.toml that can be read as text.
C30_ReadableCargoToml ==
    (SetupOver /\ plugin.cargo \in {"unparsable", "no_routes"}) =>
        /\ lib_rs.written
        /\ routes.list = <<>>
        /\ lib_rs.wrappers = <<>>
        /\ lib_rs.variant = "minimal"

\* C31: after every progress update of a compile the reported count is at
\* most the reported total, and the filled width of the compile bar is at
\* most the bar width, so that 30 - cargo_filled does not underflow.
C31_CountWithinTotal ==
    \A i \in 1..Len(compile.updates) :
        LET u == compile.updates[i]
        IN  /\ u.current <= u.total
            /\ cargo_filled(u.current, u.total) <= 30

\* C31, for a stderr on which no `Building` line reports N/M with N above M.
C31_WithoutOvershootingLine ==
    (\A n \in 1..Len(compile.run.stderr) :
        LET parsed == building_progress(compile.run.stderr[n])
        IN  parsed = None \/ parsed[1].current <= parsed[1].total)
    => \A i \in 1..Len(compile.updates) :
          LET u == compile.updates[i]
          IN  /\ u.current <= u.total
              /\ cargo_filled(u.current, u.total) <= 30

\* ----------------------------------------- a source edited during its build
\* assets/data.json of the plugin being built is changed after
\* PluginBuilder::build has returned and before update_build_cache hashes the
\* directory; b.stale records it.
EditDuringBuild ==
    /\ pc = "cache"
    /\ nedit < MaxEdits
    /\ \E v \in 0..MaxVer :
          /\ v # src[cur].data
          /\ src' = [src EXCEPT ![cur] = [@ EXCEPT !.data = v]]
    /\ nedit' = nedit + 1
    /\ edited' = [edited EXCEPT ![cur] = TRUE]
    /\ b' = [b EXCEPT !.stale = TRUE]
    /\ UNCHANGED <<dist, cache, registry, pc, inv, cur, batch, lastOk, ncmd, gen>>

\* Between two commands the user sets priority and enabled of a plugin's
\* entry in webarcade.config.json.
EditRegistry ==
    /\ pc = "idle"
    /\ nedit < MaxEdits
    /\ registry.state = "ok"
    /\ \E p \in Ids, pr \in {default_priority, 5}, en \in BOOLEAN :
          /\ registry.plugins[p].present
          /\ <<pr, en>> # <<registry.plugins[p].priority, registry.plugins[p].enabled>>
          /\ registry' = [registry EXCEPT !.plugins[p].priority = pr,
                                          !.plugins[p].enabled = en]
    /\ nedit' = nedit + 1
    /\ UNCHANGED <<src, dist, cache, pc, inv, cur, b, batch, lastOk, edited, ncmd, gen>>

\* The single-plugin build command, with those edits.
NextStale ==
    \/ build_plugin
    \/ PluginBuilder_build
    \/ EditDuringBuild
    \/ update_build_cache
    \/ update_config_for_plugin
    \/ exit
    \/ EditRegistry

SpecStale == Init /\ [][NextStale]_vars

\* C32: when a source file of the plugin is changed while its build is in
\* progress, after the sources were read and before the cache update, and the
\* build succeeds, plugin_needs_rebuild returns true for the plugin as long
\* as the sources are not changed again.
C32_EditDuringBuildRebuilds ==
    (b.outcome = "ok" /\ b.stale /\ ~edited[b.id]) => plugin_needs_rebuild(b.id) = "true"

\* C33: the handler names with an exported wrapper are the handler names of
\* the extracted route list, and has_routes holds exactly when that list is
\* not empty.
C33_ReadersAgree ==
    lib_rs.written =>
        /\ {lib_rs.wrappers[i].name : i \in 1..Len(lib_rs.wrappers)}
              = {routes.list[i].handler : i \in 1..Len(routes.list)}
        /\ (lib_rs.bridge <=> routes.list # <<>>)

\* C33, for the tables whose keys all hold a space and whose values are all
\* strings.
C33_WholeTablesAgree ==
    (lib_rs.written
        /\ \A i \in 1..Len(plugin.table) :
              plugin.table[i].value.is_str /\ FirstOf(plugin.table[i].key, {" "}) # 0)
    => /\ {lib_rs.wrappers[i].name : i \in 1..Len(lib_rs.wrappers)}
             = {routes.list[i].handler : i \in 1..Len(routes.list)}
       /\ (lib_rs.bridge <=> routes.list # <<>>)

\* ------------------------------------------- the symbols lib.rs exports
\* The functions every lib.rs exports with #[no_mangle], in the order of the
\* template.
FixedExports ==
    <<"plugin_init", "plugin_start", "plugin_stop", "plugin_metadata",
      "get_plugin_manifest", "get_plugin_manifest_len", "get_plugin_frontend",
      "get_plugin_frontend_len", "has_frontend", "free_plugin_string">>

\* create_lib_rs: the #[no_mangle] functions of lib.rs, the handler wrappers
\* first (each under the handler's own name), then the fixed ones.
exported_symbols(lib) ==
    [i \in 1..Len(lib.wrappers) |-> lib.wrappers[i].name] \o FixedExports

\* Plugins whose route table names one or two handlers out of handle_a,
\* handle_b and has_frontend, all declared in router.rs.
InitExports ==
    /\ NoCommand
    /\ \E pn \in {"unwind", "abort"} :
       \E h1, h2 \in HandlerNames \cup {"has_frontend"} :
       \E t \in {<<[key |-> <<"GET", " ", "/x">>, value |-> Str(h1)]>>,
                 <<[key |-> <<"GET", " ", "/x">>, value |-> Str(h1)],
                   [key |-> <<"/x", " ", "/x">>, value |-> Str(h2)]>>} :
       \E d \in [HandlerNames \cup {"has_frontend"} ->
                    {x \in Decls : x.declared /\ x.is_pub}] :
          plugin = [cargo |-> "table", table |-> t, panic |-> pn, router |-> TRUE, decl |-> d]
    /\ routes = NoRoutes
    /\ lib_rs = NoLib
    /\ call = NoCall
    /\ sys = NotRun
    /\ compile = NotRun

NextExports ==
    \/ extract_routes_run
    \/ setup_backend_build_run

SpecExports == InitExports /\ [][NextExports]_vars

\* C34: no two exported symbols of a generated lib.rs have the same name.
C34_ExportsDistinct ==
    lib_rs.written =>
        LET e == exported_symbols(lib_rs)
        IN  \A i, j \in 1..Len(e) : i # j => e[i] # e[j]

\* C34, for the route tables that name none of the fixed exports.
C34_OtherHandlerNames ==
    (lib_rs.written
        /\ \A i \in 1..Len(plugin.table) :
              \A k \in 1..Len(FixedExports) : plugin.table[i].value.text # FixedExports[k])
    => LET e == exported_symbols(lib_rs)
       IN  \A i, j \in 1..Len(e) : i # j => e[i] # e[j]

\* ------------------------------- the registry path and the installed file
\* update_config_for_plugin: the path of the entry it writes.
update_config_for_plugin_path(plugin_id, has_backend) ==
    IF has_backend THEN <<plugin_id, ".dll">> ELSE <<plugin_id, ".js">>

\* C35: after a successful build the path of the registry entry names the
\* file the build installed in the runtime plugin directory, on every OS.
C35_RegistryPathIsInstalledFile ==
    compile.result = "Ok" =>
        \A f \in compile.wrote :
            f.name = update_config_for_plugin_path(compile.plugin_id, compile.has_backend)

\* C35 on Windows and for frontend-only plugins.
C35_DllAndJsOnly ==
    (compile.result = "Ok" /\ (compile.os = "windows" \/ ~compile.has_backend)) =>
        \A f \in compile.wrote :
            f.name = update_config_for_plugin_path(compile.plugin_id, compile.has_backend)

\* ------------------------------------------- the statuses of a batch build
\* A batch that got as far as its progress display.
BatchShown == inv.called /\ inv.listed /\ to_build # <<>>

WithStatus(s) == {p \in Ids : progress[p] = s}

\* C36: in a batch the skipped plugins stay Skipped; the plugins to build
\* are Success or Failed before the position of the loop, Building at it
\* while its pipeline runs, Pending after it; when the batch has finished
\* none is Pending or Building and the success, failed and skipped counts
\* sum to the number of plugin source directories listed.
C36_BatchStatuses ==
    BatchShown =>
        /\ \A k \in 1..Len(skipped) : progress[skipped[k]] = "Skipped"
        /\ \A k \in 1..Len(to_build) :
              IF k < idx THEN progress[to_build[k]] \in {"Success", "Failed"}
              ELSE IF k = idx /\ InPipeline THEN progress[to_build[k]] = "Building"
              ELSE progress[to_build[k]] = "Pending"
        /\ pc = "done" =>
              /\ WithStatus("Pending") \cup WithStatus("Building") = {}
              /\ Cardinality(WithStatus("Success")) + Cardinality(WithStatus("Failed"))
                    + skipped_count = Cardinality(Listed)

\* C36 witness: a finished batch with one plugin skipped and one failed.
C36_Witness ==
    /\ BatchShown
    /\ pc = "done"
    /\ skipped_count = 1
    /\ Cardinality(WithStatus("Failed")) = 1

\* ------------------------------------------------ the pointer BUILD_PROGRESS
\* C37: BUILD_PROGRESS is set exactly while build_all_plugins is between
\* set_build_progress(Some(..)) and set_build_progress(None), where its
\* BuildProgress is alive; it is clear once build_all_plugins has returned,
\* and a single-plugin build runs with it clear and with no BuildProgress to
\* update.
C37_PointerOnlyInLoop ==
    /\ BUILD_PROGRESS <=> (BatchShown /\ pc \in {"loop", "build", "cache", "config"})
    /\ BUILD_PROGRESS => \E p \in Ids : progress[p] # "None"
    /\ pc = "done" => ~BUILD_PROGRESS
    /\ inv.kind = "build" => (~BUILD_PROGRESS /\ \A p \in Ids : progress[p] = "None")

\* C37 witness: the pipeline of a plugin runs inside a batch with the pointer
\* set, in the second command of the run.
C37_Witness ==
    /\ BUILD_PROGRESS
    /\ InPipeline
    /\ inv.kind \in {"buildall", "package"}
    /\ ncmd = 2

\* ------------------------------------------ compile_backend and cargo's pipes
\* compile_backend spawns cargo with stdout and stderr piped, reads the lines
\* of stderr to their end and then waits for cargo.  A pipe holds PipeBuf
\* units; a write to a full pipe blocks until the other end reads.  Cargo
\* has up to MaxStdout units to write to stdout and up to MaxLines lines to
\* write to stderr, in any interleaving, and exits when all is written.
MaxStdout == 3
PipeBuf == 2

InitPipe ==
    /\ NoCommand
    /\ plugin = NoPlugin
    /\ routes = NotRun
    /\ lib_rs = NotRun
    /\ call = NotRun
    /\ sys = NotRun
    /\ \E out \in 0..MaxStdout, err \in 0..MaxLines, ok \in BOOLEAN :
          compile = [pc |-> "reading", stdout_total |-> out, stdout_left |-> out,
                     stderr_left |-> err, stdout_pipe |-> 0, stderr_pipe |-> 0,
                     lines_read |-> 0, exited |-> FALSE, success |-> ok, result |-> "none"]

\* cargo writes one unit to stdout: possible while the pipe has room.
cargo_write_stdout ==
    /\ ~compile.exited
    /\ compile.stdout_left > 0
    /\ compile.stdout_pipe < PipeBuf
    /\ compile' = [compile EXCEPT !.stdout_left = @ - 1, !.stdout_pipe = @ + 1]
    /\ UNCHANGED outside

\* cargo writes one line to stderr: possible while the pipe has room.
cargo_write_stderr ==
    /\ ~compile.exited
    /\ compile.stderr_left > 0
    /\ compile.stderr_pipe < PipeBuf
    /\ compile' = [compile EXCEPT !.stderr_left = @ - 1, !.stderr_pipe = @ + 1]
    /\ UNCHANGED outside

\* cargo has written everything and exits; its ends of the pipes close.
cargo_exit ==
    /\ ~compile.exited
    /\ compile.stdout_left = 0
    /\ compile.stderr_left = 0
    /\ compile' = [compile EXCEPT !.exited = TRUE]
    /\ UNCHANGED outside

\* for line in reader.lines(): the next line of stderr, or the end of the
\* loop when the pipe is empty and cargo has closed it; blocked otherwise.
reader_lines ==
    /\ compile.pc = "reading"
    /\ IF compile.stderr_pipe > 0
       THEN compile' = [compile EXCEPT !.stderr_pipe = @ - 1, !.lines_read = @ + 1]
       ELSE /\ compile.exited
            /\ compile' = [compile EXCEPT !.pc = "waiting"]
    /\ UNCHANGED outside

\* child.wait() and the test of the exit status.
child_wait ==
    /\ compile.pc = "waiting"
    /\ compile.exited
    /\ compile' = [compile EXCEPT !.pc = "returned",
                                  !.result = IF compile.success THEN "Ok" ELSE "Err"]
    /\ UNCHANGED outside

NextPipe ==
    \/ cargo_write_stdout
    \/ cargo_write_stderr
    \/ cargo_exit
    \/ reader_lines
    \/ child_wait

\* Cargo and compile_backend each take their next step when they can.
SpecPipe == InitPipe /\ [][NextPipe]_vars /\ WF_vars(NextPipe)

\* C38: compile_backend returns, whatever cargo writes to stdout.
C38_CompileBackendReturns == <>(compile.pc = "returned")

\* C38 for a cargo whose whole stdout fits in the pipe.
C38_StdoutFitsInPipe ==
    (compile.stdout_total <= PipeBuf) ~> (compile.pc = "returned")

\* ------------------------------------------- what a rebuild leaves alone
\* The build of b.id has written the registry, which held an entry of the
\* plugin when the build started.
Rebuilt == b.outcome = "ok" /\ b.cfgWritten /\ pc = "done"
             /\ b.reg0.state = "ok" /\ b.reg0.plugins[b.id].present

\* C39: a successful rebuild leaves the plugin's priority and enabled, and
\* the entries of the other plugins, as they were.
C39_RebuildKeepsUserSettings ==
    Rebuilt =>
        /\ registry.plugins[b.id].priority = b.reg0.plugins[b.id].priority
        /\ registry.plugins[b.id].enabled = b.reg0.plugins[b.id].enabled
        /\ \A q \in Ids \ {b.id} : registry.plugins[q] = b.reg0.plugins[q]

\* C39 for the entries of the other plugins alone.
C39_OtherEntriesKept ==
    Rebuilt => \A q \in Ids \ {b.id} : registry.plugins[q] = b.reg0.plugins[q]

====
